---- MODULE Spec2Model ----
(***************************************************************************)
(* The boolean expression parser of osh (osh/bool_parse.py) over the word  *)
(* model (core/word_node.py) and the Id/Kind registry (core/id_kind.py).   *)
(*                                                                         *)
(* Python values are modelled as records with a "cls" field; Python None   *)
(* is NoneVal.  Python strings that the code slices or joins are sequences *)
(* of one-character strings.  A call that can raise returns a record with  *)
(* an "exc" field naming the exception ("" when none was raised).          *)
(***************************************************************************)
EXTENDS Integers, Sequences, FiniteSets, TLC

VARIABLES
  id_kind,  \* the state of module core/id_kind.py: ID_SPEC and the redirect tables
  self,     \* the word a method of core/word_node.py is called on
  parser,   \* the BoolParser object's fields, its word reader's, and the call history
  pc,       \* "new" (constructed), "ready" (first word read), "done" (entry point returned)
  called,   \* the entry point that was called
  ret,      \* what the entry point returned
  exc       \* the exception the entry point raised ("" when none)

vars == <<id_kind, self, parser, pc, called, ret, exc>>

----------------------------------------------------------------------------
(* Bounds of the model *)

\* streams of up to MaxLen words over the whole alphabet
MaxLen == 3
\* streams of up to MaxCoreLen operands and connectives, closed by ]]
MaxCoreLen == 5
\* streams of up to MaxFaultLen words among an operand, a unary test, !, &&,
\* ]] and a failed read
MaxFaultLen == 4
\* the tests' inputs with up to MaxNewlines newlines put in, anywhere
MaxNewlines == 2
\* compound words of up to MaxParts parts
MaxParts == 2
\* registries built by up to MaxCalls calls of AddKind / AddKindPairs /
\* AddBoolKind
MaxCalls == 2

----------------------------------------------------------------------------
(* core/id_kind.py: the Id / Kind registry *)

\* _AddKinds: the Kinds in registration order, each with its Id names
KIND_TOKENS ==
  << <<"Undefined", <<"Tok">> >>,
     <<"Unknown", <<"Tok">> >>,
     <<"Eof", <<"Real", "RParen", "Backtick">> >>,
     <<"Ignored", <<"LineCont", "Space", "Comment">> >>,
     <<"WS", <<"Space">> >>,
     <<"Lit", <<"Chars", "VarLike", "Other", "EscapedChar", "LBrace", "RBrace",
                "Comma", "DRightBracket", "Tilde", "Pound", "Slash", "Percent",
                "Digits", "At", "ArithVarLike">> >>,
     <<"Op", <<"Newline", "Amp", "Pipe", "PipeAmp", "DAmp", "DPipe", "Semi",
               "DSemi", "LParen", "RParen", "DLeftParen", "DRightParen">> >>,
     <<"Redir", <<"Less", "Great", "DLess", "TLess", "DGreat", "GreatAnd",
                  "LessAnd", "DLessDash", "LessGreat", "Clobber">> >>,
     <<"Left", <<"DoubleQuote", "SingleQuote", "Backtick", "CommandSub",
                 "VarSub", "ArithSub", "ArithSub2", "DollarDoubleQuote",
                 "DollarSingleQuote", "ProcSubIn", "ProcSubOut">> >>,
     <<"Right", <<"DoubleQuote", "SingleQuote", "Backtick", "CommandSub",
                  "VarSub", "ArithSub", "DollarDoubleQuote",
                  "DollarSingleQuote", "Subshell", "FuncDef", "CasePat",
                  "ArrayLiteral">> >>,
     <<"VSub", <<"Name", "Number", "Bang", "At", "Pound", "Dollar", "Amp",
                 "Star", "Hyphen", "QMark">> >>,
     <<"VTest", <<"ColonHyphen", "Hyphen", "ColonEquals", "Equals",
                  "ColonQMark", "QMark", "ColonPlus", "Plus">> >>,
     <<"VOp1", <<"Percent", "DPercent", "Pound", "DPound", "Caret", "DCaret",
                 "Comma", "DComma">> >>,
     <<"VOp2", <<"Slash", "Colon", "LBracket", "RBracket">> >>,
     <<"Arith", <<"Semi", "Comma", "Plus", "Minus", "Star", "Slash", "Percent",
                  "DPlus", "DMinus", "DStar", "LParen", "RParen", "LBracket",
                  "RBracket", "RBrace", "QMark", "Colon", "LessEqual", "Less",
                  "GreatEqual", "Great", "DEqual", "NEqual", "DAmp", "DPipe",
                  "Bang", "DGreat", "DLess", "Amp", "Pipe", "Caret", "Tilde",
                  "Equal", "PlusEqual", "MinusEqual", "StarEqual",
                  "SlashEqual", "PercentEqual", "DGreatEqual", "DLessEqual",
                  "AmpEqual", "PipeEqual", "CaretEqual">> >>,
     <<"Node", <<"PostDPlus", "PostDMinus", "UnaryPlus", "UnaryMinus",
                 "ArithVar", "Command", "Assign", "AndOr", "Block",
                 "Subshell", "Fork", "FuncDef", "ForEach", "ForExpr", "NoOp",
                 "UnaryExpr", "BinaryExpr", "TernaryExpr", "FuncCall",
                 "ConstInt">> >>,
     <<"Word", <<"Compound">> >>,
     <<"KW", <<"DLeftBracket", "Bang", "For", "While", "Until", "Do", "Done",
               "In", "Case", "Esac", "If", "Fi", "Then", "Else", "Elif",
               "Function">> >>,
     <<"Assign", <<"Declare", "Export", "Local", "Readonly">> >> >>

\* UNARY_FILE_CHARS = tuple('abcdefghLprsStuwxOGN')
UNARY_FILE_CHARS ==
  <<"a", "b", "c", "d", "e", "f", "g", "h", "L", "p", "r", "s", "S", "t", "u",
    "w", "x", "O", "G", "N">>

\* _AddBoolKinds: the two boolean Kinds, each operand type with its Id names
BOOL_KIND_TOKENS ==
  << <<"BoolUnary", << <<"Str", <<"z", "n">> >>,
                       <<"Other", <<"o", "v", "R">> >>,
                       <<"Path", UNARY_FILE_CHARS>> >> >>,
     <<"BoolBinary", << <<"Str", <<"Equal", "DEqual", "NEqual", "EqualTilde">> >>,
                        <<"Path", <<"ef", "nt", "ot">> >>,
                        <<"Int", <<"eq", "ne", "gt", "ge", "lt", "le">> >> >> >> >>

\* token_name = '%s_%s' % (kind_name, name)
TokenName(kind_name, name) == kind_name \o "_" \o name

Range(f) == {f[i] : i \in DOMAIN f}

\* the Id names one AddKind / AddKindPairs call registers under kind_name
KindIds(entry) == {TokenName(entry[1], n) : n \in Range(entry[2])}

\* the Id names one AddBoolKind call registers under kind_name
BoolKindIds(entry) ==
  UNION {{TokenName(entry[1], n) : n \in Range(grp[2])} : grp \in Range(entry[2])}

\* the (Id name, Kind name) pairs _AddKinds and _AddBoolKinds register
ID_KIND_PAIRS ==
  UNION ({{<<id, e[1]>> : id \in KindIds(e)} : e \in Range(KIND_TOKENS)}
         \cup {{<<id, e[1]>> : id \in BoolKindIds(e)} : e \in Range(BOOL_KIND_TOKENS)})

\* _ID_TO_KIND after _AddKinds(ID_SPEC) and _AddBoolKinds(ID_SPEC), by name
ID_TO_KIND ==
  [id \in {pr[1] : pr \in ID_KIND_PAIRS} |->
     (CHOOSE pr \in ID_KIND_PAIRS : pr[1] = id)[2]]

LookupKind(id_) == ID_TO_KIND[id_]

----------------------------------------------------------------------------
(* core/id_kind.py: the construction of the registry *)

\* an empty dict, an empty class namespace
EmptyMap == [k \in {} |-> 0]

\* d[k] = v, setattr(cls, k, v)
SetItem(d, k, v) == (k :> v) @@ d

\* IdSpec.__init__, with the calls made on the object
NewIdSpec ==
  [id_enum |-> EmptyMap,        \* the attributes of class Id: name -> integer
   kind_enum |-> EmptyMap,      \* the attributes of class Kind: name -> integer
   token_names |-> EmptyMap,    \* integer -> string Id
   kind_lookup |-> EmptyMap,    \* integer -> Kind
   kind_sizes |-> <<>>,
   lexer_pairs |-> EmptyMap,    \* Kind -> [(regex, char_pat, Id), ...]
   bool_ops |-> EmptyMap,       \* Id -> OperandType
   token_index |-> 0,
   kind_index |-> 0,
   calls |-> <<>>]

\* the module before ID_SPEC is filled and the redirect tables are defined
NewIdKind ==
  [ID_SPEC |-> NewIdSpec, REDIR_DEFAULT_FD |-> EmptyMap, REDIR_TYPE |-> EmptyMap]

\* IdSpec._AddId
_AddId(spec, token_name) ==
  [spec EXCEPT
     !.token_index = spec.token_index + 1,
     !.id_enum = SetItem(@, token_name, spec.token_index + 1),
     !.token_names = SetItem(@, spec.token_index + 1, token_name),
     !.kind_lookup = SetItem(@, spec.token_index + 1, spec.kind_index)]

\* IdSpec._AddKind
_AddKind(spec, kind_name) ==
  [spec EXCEPT
     !.kind_enum = SetItem(@, kind_name, spec.kind_index),
     !.kind_index = spec.kind_index + 1]

\* a faulty AddBoolOp, for C15: the operand type is not entered
AddBoolOp_Undefined(spec, id_, arg_type) ==
  [spec EXCEPT !.bool_ops = SetItem(@, id_, "Undefined")]

\* IdSpec.AddBoolOp
AddBoolOp(spec, id_, arg_type) ==
  [spec EXCEPT !.bool_ops = SetItem(@, id_, arg_type)]

\* the call entered in the history of the object: the Kind name and the Id
\* names in the order of their registration
LogCall(spec, kind_name, token_names) ==
  [spec EXCEPT !.calls = Append(@, [kind_name |-> kind_name, names |-> token_names])]

\* always true, token_index counting up from 0: reading it has TLC evaluate
\* spec where a loop takes it over, instead of deferring the evaluation into
\* a nesting as deep as the number of Ids registered
Evaluated(spec) == spec.token_index >= 0

\* AddKind, "for name in tokens": the Ids of the names, one after the other
RECURSIVE AddKind_Ids(_, _, _)
AddKind_Ids(spec, kind_name, tokens) ==
  IF Evaluated(spec) /\ tokens = <<>> THEN spec
  ELSE AddKind_Ids(_AddId(spec, TokenName(kind_name, Head(tokens))),
                   kind_name, Tail(tokens))

\* a faulty AddKind, for C13: the Kind is added before its Ids
AddKind_KindFirst(spec, kind_name, tokens) ==
  [AddKind_Ids(_AddKind(spec, kind_name), kind_name, tokens)
     EXCEPT !.kind_sizes = Append(@, Len(tokens)),
            !.calls = Append(@, [kind_name |-> kind_name,
                                 names |-> [i \in DOMAIN tokens |->
                                              TokenName(kind_name, tokens[i])]])]

\* IdSpec.AddKind
AddKind(spec, kind_name, tokens) ==
  [_AddKind(AddKind_Ids(spec, kind_name, tokens), kind_name)
     EXCEPT !.kind_sizes = Append(@, Len(tokens)),
            !.calls = Append(@, [kind_name |-> kind_name,
                                 names |-> [i \in DOMAIN tokens |->
                                              TokenName(kind_name, tokens[i])]])]

\* AddKindPairs / AddBoolKind, "for name, char_pat in pairs": the Id of each
\* name; acc is lexer_pairs so far, arg_type the operand type AddBoolKind
\* enters for each Id ("" in AddKindPairs, which enters none)
RECURSIVE AddPairs(_, _, _, _, _)
AddPairs(spec, kind_name, pairs, arg_type, acc) ==
  IF Evaluated(spec) /\ pairs = <<>> THEN [spec |-> spec, lexer_pairs |-> acc]
  ELSE AddPairs(
         IF arg_type = "" THEN _AddId(spec, TokenName(kind_name, Head(pairs)[1]))
         ELSE AddBoolOp(_AddId(spec, TokenName(kind_name, Head(pairs)[1])),
                        spec.token_index + 1, arg_type),
         kind_name, Tail(pairs), arg_type,
         Append(acc, <<FALSE, Head(pairs)[2], spec.token_index + 1>>))

\* the end of AddKindPairs and of AddBoolKind: lexer_pairs is stored under
\* the Kind, the Kind added, the size noted; r is what the loops returned
AddPairs_End(r, kind_name, token_names, num_tokens) ==
  LogCall([_AddKind([r.spec EXCEPT
                       !.lexer_pairs = SetItem(@, r.spec.kind_index, r.lexer_pairs)],
                    kind_name)
             EXCEPT !.kind_sizes = Append(@, num_tokens)],
          kind_name, token_names)

\* the Id names of pairs under kind_name
PairNames(kind_name, pairs) ==
  [i \in DOMAIN pairs |-> TokenName(kind_name, pairs[i][1])]

\* IdSpec.AddKindPairs
AddKindPairs(spec, kind_name, pairs) ==
  AddPairs_End(AddPairs(spec, kind_name, pairs, "", <<>>),
               kind_name, PairNames(kind_name, pairs), Len(pairs))

\* AddBoolKind, "for arg_type, pairs in arg_type_pairs.items()": items is
\* the dict's items in the order the iteration takes them
RECURSIVE AddBoolKind_Items(_, _, _)
AddBoolKind_Items(r, kind_name, items) ==
  IF items = <<>> THEN r
  ELSE AddBoolKind_Items(
         AddPairs(r.spec, kind_name, Head(items)[2], Head(items)[1], r.lexer_pairs),
         kind_name, Tail(items))

\* the pairs of all the items, one after the other
RECURSIVE ItemPairs(_)
ItemPairs(items) ==
  IF items = <<>> THEN <<>> ELSE Head(items)[2] \o ItemPairs(Tail(items))

\* IdSpec.AddBoolKind, the dict iterated in the order of items
AddBoolKind(spec, kind_name, items) ==
  AddPairs_End(
    AddBoolKind_Items([spec |-> spec, lexer_pairs |-> <<>>], kind_name, items),
    kind_name, PairNames(kind_name, ItemPairs(items)), Len(ItemPairs(items)))

\* the char_pat of each pair of the AddKindPairs calls of _AddKinds, in the
\* order of the names of KIND_TOKENS
PAIR_PATS ==
  [VTest |-> <<":-", "-", ":=", "=", ":?", "?", ":+", "+">>,
   VOp1 |-> <<"%", "%%", "#", "##", "^", "^^", ",", ",,">>,
   VOp2 |-> <<"/", ":", "[", "]">>,
   Arith |-> <<";", ",", "+", "-", "*", "/", "%", "++", "--", "**", "(", ")",
               "[", "]", "}", "?", ":", "<=", "<", ">=", ">", "==", "!=",
               "&&", "||", "!", ">>", "<<", "&", "|", "^", "~", "=", "+=",
               "-=", "*=", "/=", "%=", ">>=", "<<=", "&=", "|=", "^=">>]

\* the pairs of an AddKindPairs call of _AddKinds
KindPairs(entry) ==
  [i \in DOMAIN entry[2] |-> <<entry[2][i], PAIR_PATS[entry[1]][i]>>]

\* _AddKinds: the calls from entries on
RECURSIVE _AddKinds_From(_, _)
_AddKinds_From(spec, entries) ==
  IF Evaluated(spec) /\ entries = <<>> THEN spec
  ELSE _AddKinds_From(
         IF Head(entries)[1] \in DOMAIN PAIR_PATS
         THEN AddKindPairs(spec, Head(entries)[1], KindPairs(Head(entries)))
         ELSE AddKind(spec, Head(entries)[1], Head(entries)[2]),
         Tail(entries))

_AddKinds(spec) == _AddKinds_From(spec, KIND_TOKENS)

\* the string to match of a boolean operator: _Dash, but for the four
\* string comparisons
BoolPat(name) ==
  CASE name = "Equal" -> "="
    [] name = "DEqual" -> "=="
    [] name = "NEqual" -> "!="
    [] name = "EqualTilde" -> "=~"
    [] OTHER -> "-" \o name

\* the items of the dict of an AddBoolKind call of _AddBoolKinds, in the
\* order the iteration takes them
BoolItems(entry, order) ==
  [i \in DOMAIN order |->
     <<entry[2][order[i]][1],
       [j \in DOMAIN entry[2][order[i]][2] |->
          <<entry[2][order[i]][2][j], BoolPat(entry[2][order[i]][2][j])>>]>>]

\* the orders an iteration over a dict of n keys can take
Orders(n) ==
  {o \in [1..n -> 1..n] : \A i, j \in 1..n : o[i] = o[j] => i = j}

\* _AddBoolKinds, "spec.AddBoolOp(Id.Op_DAmp, ...)" and the four after it
_AddBoolKinds_Ops(spec) ==
  AddBoolOp(
    AddBoolOp(
      AddBoolOp(
        AddBoolOp(
          AddBoolOp(spec, spec.id_enum["Op_DAmp"], "Undefined"),
          spec.id_enum["Op_DPipe"], "Undefined"),
        spec.id_enum["KW_Bang"], "Undefined"),
      spec.id_enum["Redir_Less"], "Str"),
    spec.id_enum["Redir_Great"], "Str")

\* _AddBoolKinds, the two dicts iterated in these orders
_AddBoolKinds(spec, unary_order, binary_order) ==
  _AddBoolKinds_Ops(
    AddBoolKind(
      AddBoolKind(spec, "BoolUnary", BoolItems(BOOL_KIND_TOKENS[1], unary_order)),
      "BoolBinary", BoolItems(BOOL_KIND_TOKENS[2], binary_order)))

\* REDIR_DEFAULT_FD = {...}, by Id name
REDIR_DEFAULT_FD_ITEMS ==
  << <<"Redir_Less", 0>>, <<"Redir_Great", 1>>, <<"Redir_DGreat", 1>>,
     <<"Redir_Clobber", 1>>, <<"Redir_LessGreat", 1>>,
     <<"Redir_GreatAnd", 1>>, <<"Redir_LessAnd", 0>>,
     <<"Redir_DLess", 0>>, <<"Redir_DLessDash", 0>>, <<"Redir_TLess", 0>> >>

\* REDIR_TYPE = {...}, by Id name
REDIR_TYPE_ITEMS ==
  << <<"Redir_Less", "Path">>, <<"Redir_Great", "Path">>,
     <<"Redir_DGreat", "Path">>, <<"Redir_Clobber", "Path">>,
     <<"Redir_LessGreat", "Path">>,
     <<"Redir_GreatAnd", "Desc">>, <<"Redir_LessAnd", "Desc">>,
     <<"Redir_DLess", "Str">>, <<"Redir_DLessDash", "Str">>,
     <<"Redir_TLess", "Str">> >>

\* a faulty dict display, for C16: the last item is left out
RECURSIVE RedirTable_Short(_, _)
RedirTable_Short(spec, items) ==
  IF Len(items) <= 1 THEN EmptyMap
  ELSE SetItem(RedirTable_Short(spec, Tail(items)),
               spec.id_enum[Head(items)[1]], Head(items)[2])

\* the dict display {Id.<name>: value, ...} of a redirect table, evaluated
\* with the Ids of spec
RECURSIVE RedirTable(_, _)
RedirTable(spec, items) ==
  IF items = <<>> THEN EmptyMap
  ELSE SetItem(RedirTable(spec, Tail(items)),
               spec.id_enum[Head(items)[1]], Head(items)[2])

----------------------------------------------------------------------------
(* core/word_node.py: word parts and words *)

NoneVal == [cls |-> "None"]

\* a token (id, val, span); pos stands for the span: the index of the word in the source
Token(id, val) == [id |-> id, val |-> val, pos |-> 0]

LiteralPart(token) == [cls |-> "LiteralPart", id |-> "Lit_Chars", token |-> token]

EscapedLiteralPart(token) ==
  [cls |-> "EscapedLiteralPart", id |-> "Lit_EscapedChar", token |-> token]

SingleQuotedPart(tokens) ==
  [cls |-> "SingleQuotedPart", id |-> "Left_SingleQuote", tokens |-> tokens]

DoubleQuotedPart(parts) ==
  [cls |-> "DoubleQuotedPart", id |-> "Left_DoubleQuote", parts |-> parts]

VarSubPart(name, token) ==
  [cls |-> "VarSubPart", id |-> "Left_VarSub", name |-> name, token |-> token]

CommandSubPart(token, command_list) ==
  [cls |-> "CommandSubPart", id |-> "Left_CommandSub", token |-> token,
   command_list |-> command_list]

TildeSubPart(prefix) == [cls |-> "TildeSubPart", id |-> "Lit_Tilde", prefix |-> prefix]

ArithSubPart(anode) == [cls |-> "ArithSubPart", id |-> "Left_ArithSub", anode |-> anode]

\* ArrayLiteralPart(), no word appended yet
ArrayLiteralPart ==
  [cls |-> "ArrayLiteralPart", id |-> "Right_ArrayLiteral", words |-> <<>>]

CompoundWord(parts) == [cls |-> "CompoundWord", id |-> "Word_Compound", parts |-> parts]

TokenWord(token) == [cls |-> "TokenWord", id |-> "Word_Compound", token |-> token]

\* WordPart.LiteralId, overridden by LiteralPart only
LiteralId(part) ==
  IF part.cls = "LiteralPart" THEN part.token.id ELSE "Undefined_Tok"

\* CompoundWord.BoolId, token_type being the single part's LiteralId()
BoolIdOfLiteral(token_type) ==
  IF token_type = "Undefined_Tok" THEN "Word_Compound"
  ELSE IF token_type \in {"KW_Bang", "Lit_DRightBracket"} THEN token_type
  ELSE IF LookupKind(token_type) \in {"BoolUnary", "BoolBinary"} THEN token_type
  ELSE "Word_Compound"

\* CompoundWord.BoolId
CompoundWord_BoolId(w) ==
  IF Len(w.parts) # 1 THEN "Word_Compound"
  ELSE BoolIdOfLiteral(LiteralId(w.parts[1]))

\* TokenWord.BoolId
TokenWord_BoolId(w) == w.token.id

\* Word.BoolId by virtual dispatch
BoolId(w) ==
  IF w.cls = "TokenWord" THEN TokenWord_BoolId(w) ELSE CompoundWord_BoolId(w)

\* CompoundWord.CommandId, token_type being the single part's LiteralId()
CommandIdOfLiteral(token_type) ==
  IF token_type = "Undefined_Tok" THEN "Word_Compound"
  ELSE IF token_type \in {"Lit_LBrace", "Lit_RBrace"} THEN token_type
  ELSE IF LookupKind(token_type) = "KW" THEN token_type
  ELSE "Word_Compound"

\* a faulty CompoundWord.CommandId, for C17: the number of parts is not tested
CompoundWord_CommandId_AnyLen(w) ==
  IF w.parts = <<>> THEN "Word_Compound"
  ELSE CommandIdOfLiteral(LiteralId(w.parts[1]))

\* CompoundWord.CommandId
CompoundWord_CommandId(w) ==
  IF Len(w.parts) # 1 THEN "Word_Compound"
  ELSE CommandIdOfLiteral(LiteralId(w.parts[1]))

\* TokenWord.CommandId
TokenWord_CommandId(w) == w.token.id

\* Word.CommandId by virtual dispatch
CommandId(w) ==
  IF w.cls = "TokenWord" THEN TokenWord_CommandId(w) ELSE CompoundWord_CommandId(w)

\* CompoundWord.ArithId
CompoundWord_ArithId(w) == "Word_Compound"

\* a faulty TokenWord.ArithId, for C18: the Id of the word, not of its token
TokenWord_ArithId_OfWord(w) == w.id

\* TokenWord.ArithId
TokenWord_ArithId(w) == w.token.id

\* Word.ArithId by virtual dispatch
ArithId(w) ==
  IF w.cls = "TokenWord" THEN TokenWord_ArithId(w) ELSE CompoundWord_ArithId(w)

\* Python's False, and a str, as returned where either can be
FalseVal == [cls |-> "False"]
StrVal(val) == [cls |-> "str", val |-> val]
\* an exception leaving a method that returns either
Raised(e) == [cls |-> "raise", exc |-> e]

\* val.endswith('=')
EndsWithEquals(val) == val # <<>> /\ val[Len(val)] = "="

\* a faulty LiteralPart.VarLikeName, for C19: the = is kept
VarLikeName_Whole(part) ==
  IF part.cls = "LiteralPart" /\ part.token.id = "Lit_VarLike"
  THEN StrVal(part.token.val)
  ELSE FalseVal

\* <part>.VarLikeName: WordPart's returns False, LiteralPart overrides it
VarLikeName(part) ==
  IF part.cls = "LiteralPart"
  THEN IF part.token.id = "Lit_VarLike"
       THEN IF EndsWithEquals(part.token.val)
            THEN StrVal(SubSeq(part.token.val, 1, Len(part.token.val) - 1))
            ELSE Raised("AssertionError")
       ELSE FalseVal
  ELSE FalseVal

\* "if name:"
Truthy(name) == name.cls = "str" /\ name.val # <<>>

\* CompoundWord.LooksLikeAssignment from "rhs = CompoundWord()" on: what is
\* returned or raised, and self after the call
LooksLikeAssignment_Rhs(w, name) ==
  IF name.cls = "raise" THEN [self |-> w, ret |-> NoneVal, exc |-> name.exc]
  ELSE IF Truthy(name)
  THEN [self |-> w,
        ret |-> [cls |-> "tuple", name |-> name.val,
                 rhs |-> IF Len(w.parts) = 1
                         THEN CompoundWord(<<SingleQuotedPart(<<>>)>>)
                         ELSE CompoundWord(Tail(w.parts))],
        exc |-> ""]
  ELSE [self |-> w, ret |-> FalseVal, exc |-> ""]

\* CompoundWord.LooksLikeAssignment
LooksLikeAssignment(w) ==
  IF Len(w.parts) = 0 THEN [self |-> w, ret |-> FalseVal, exc |-> ""]
  ELSE LooksLikeAssignment_Rhs(w, VarLikeName(w.parts[1]))

RECURSIVE JoinVals(_)
\* ''.join(t.val for t in tokens)
JoinVals(tokens) ==
  IF tokens = <<>> THEN <<>> ELSE Head(tokens).val \o JoinVals(Tail(tokens))

RECURSIVE Part_EvalStatic(_)
RECURSIVE DoubleQuoted_EvalStatic(_, _)

\* DoubleQuotedPart.EvalStatic, one turn of the loop: r is p.EvalStatic()
DoubleQuoted_Step(rest, acc, r) ==
  IF Len(r) > 3 THEN r
  ELSE IF ~r[1] THEN <<FALSE, <<>>, TRUE>>
  ELSE DoubleQuoted_EvalStatic(rest, acc \o r[2])

\* DoubleQuotedPart.EvalStatic: the loop over self.parts, ret so far
DoubleQuoted_EvalStatic(parts, acc) ==
  IF parts = <<>> THEN <<TRUE, acc, TRUE>>
  ELSE DoubleQuoted_Step(Tail(parts), acc, Part_EvalStatic(Head(parts)))

\* a faulty dispatch, for C20: an escaped literal keeps its backslash
Part_EvalStatic_Backslash(part) ==
  CASE part.cls = "LiteralPart" -> <<TRUE, part.token.val, FALSE>>
    [] part.cls = "EscapedLiteralPart" -> <<TRUE, part.token.val, TRUE>>
    [] part.cls = "SingleQuotedPart" -> <<TRUE, JoinVals(part.tokens), TRUE>>
    [] part.cls = "DoubleQuotedPart" -> DoubleQuoted_EvalStatic(part.parts, <<>>)
    [] OTHER -> <<FALSE, <<>>, FALSE>>

\* <part>.EvalStatic by virtual dispatch: (ok, value, quoted), with a fourth
\* component, the exception, when WordPart's own EvalStatic raises
Part_EvalStatic(part) ==
  CASE part.cls = "LiteralPart" -> <<TRUE, part.token.val, FALSE>>
    [] part.cls = "EscapedLiteralPart" -> <<TRUE, Tail(part.token.val), TRUE>>
    [] part.cls = "SingleQuotedPart" -> <<TRUE, JoinVals(part.tokens), TRUE>>
    [] part.cls = "DoubleQuotedPart" -> DoubleQuoted_EvalStatic(part.parts, <<>>)
    [] part.cls \in {"CommandSubPart", "VarSubPart", "TildeSubPart", "ArithSubPart"} ->
         <<FALSE, <<>>, FALSE>>
    [] OTHER -> <<FALSE, <<>>, FALSE, "NotImplementedError">>

RECURSIVE CompoundWord_EvalStaticLoop(_, _, _)

\* CompoundWord.EvalStatic, one turn of the loop: r is p.EvalStatic()
CompoundWord_Step(rest, acc, quoted, r) ==
  IF Len(r) > 3 THEN r
  ELSE IF ~r[1] THEN <<FALSE, <<>>, quoted>>
  ELSE CompoundWord_EvalStaticLoop(rest, acc \o r[2], quoted \/ r[3])

\* CompoundWord.EvalStatic: the loop over self.parts, ret and quoted so far
CompoundWord_EvalStaticLoop(parts, acc, quoted) ==
  IF parts = <<>> THEN <<TRUE, acc, quoted>>
  ELSE CompoundWord_Step(Tail(parts), acc, quoted, Part_EvalStatic(Head(parts)))

\* CompoundWord.EvalStatic
EvalStatic(w) == CompoundWord_EvalStaticLoop(w.parts, <<>>, FALSE)

----------------------------------------------------------------------------
(* The word reader (osh/word_parse.py, a collaborator): ReadWord and Error *)

DBRACKET == "DBRACKET"
BASH_REGEX == "BASH_REGEX"

RECURSIVE StampPart(_, _)
\* the part with every token's span set to source position i
StampPart(part, i) ==
  CASE part.cls \in {"LiteralPart", "EscapedLiteralPart", "VarSubPart"} ->
         [part EXCEPT !.token.pos = i]
    [] part.cls = "SingleQuotedPart" ->
         [part EXCEPT !.tokens = [k \in DOMAIN part.tokens |->
                                    [part.tokens[k] EXCEPT !.pos = i]]]
    [] part.cls = "DoubleQuotedPart" ->
         [part EXCEPT !.parts = [k \in DOMAIN part.parts |->
                                   StampPart(part.parts[k], i)]]
    [] OTHER -> part

\* the word (or None) as the word reader returns it for source position i
Stamp(w, i) ==
  CASE w.cls = "TokenWord" -> [w EXCEPT !.token.pos = i]
    [] w.cls = "CompoundWord" ->
         [w EXCEPT !.parts = [k \in DOMAIN w.parts |-> StampPart(w.parts[k], i)]]
    [] OTHER -> w

\* the source position a word read from the stream carries
WordPos(w) ==
  IF w.cls = "TokenWord" THEN w.token.pos
  ELSE IF w.parts = <<>> THEN 0
  ELSE LET p == w.parts[1] IN
       IF p.cls = "SingleQuotedPart" THEN p.tokens[1].pos ELSE p.token.pos

\* a word of one literal part whose token has the given Id and text
Lit(id, val) == CompoundWord(<<LiteralPart(Token(id, val))>>)

\* an operator the lexer returns as a token of its own
Op(id, val) == TokenWord(Token(id, val))

W_a == Lit("Lit_Chars", <<"a">>)
W_LBracket == Lit("Lit_Chars", <<"[">>)                     \* not a valid regex
W_VarSub == CompoundWord(<<VarSubPart("x", Token("VSub_Name", <<"$", "x">>))>>)
W_z == Lit("BoolUnary_z", <<"-", "z">>)
W_DEqual == Lit("BoolBinary_DEqual", <<"=", "=">>)
W_EqualTilde == Lit("BoolBinary_EqualTilde", <<"=", "~">>)
W_Bang == Lit("KW_Bang", <<"!">>)
W_DRightBracket == Lit("Lit_DRightBracket", <<"]", "]">>)
W_Less == Op("Redir_Less", <<"<">>)
W_DGreat == Op("Redir_DGreat", <<">", ">">>)
W_DAmp == Op("Op_DAmp", <<"&", "&">>)
W_DPipe == Op("Op_DPipe", <<"|", "|">>)
W_LParen == Op("Op_LParen", <<"(">>)
W_RParen == Op("Op_RParen", <<")">>)
W_Newline == Op("Op_Newline", <<"\n">>)

\* what one ReadWord call can return: a word, or None on a lexer error
Alphabet ==
  {W_a, W_LBracket, W_VarSub, W_z, W_DEqual, W_EqualTilde, W_Bang,
   W_DRightBracket, W_Less, W_DGreat, W_DAmp, W_DPipe, W_LParen, W_RParen,
   W_Newline, NoneVal}

\* a plain operand, the connectives and the parentheses
CoreAlphabet == {W_a, W_Bang, W_DAmp, W_DPipe, W_LParen, W_RParen}

SeqsUpTo(S, n) == UNION {[1..k -> S] : k \in 0..n}

\* $foo"bar"
W_VarSubDQ ==
  CompoundWord(<<VarSubPart("foo", Token("VSub_Name", <<"$", "f", "o", "o">>)),
                 DoubleQuotedPart(<<LiteralPart(Token("Lit_Chars", <<"b", "a", "r">>))>>)>>)

\* the inputs of bool_parse_test.py, as _MakeParser reads them (code_str + ' ]]')
TestStreams ==
  {s \o <<W_DRightBracket>> : s \in
     { <<W_a>>,                                          \* foo
       <<W_VarSubDQ>>,                                   \* $foo"bar"
       <<W_z, W_a>>,                                     \* -z foo
       <<W_a, W_DEqual, W_a>>,                           \* foo == bar
       <<W_Bang, W_a>>,                                  \* ! foo
       <<W_a, W_DAmp, W_Bang, W_a>>,                     \* foo && ! bar
       <<W_a, W_DAmp, W_Bang, W_a, W_DAmp, W_a>>,        \* foo && ! bar && baz
       <<W_z, W_a, W_DAmp, W_z, W_a>>,                   \* -z foo && -z bar
       <<W_a, W_DPipe, W_Bang, W_a>>,                    \* foo || ! bar
       <<W_LParen, W_a, W_DEqual, W_a, W_RParen>>,       \* ( foo == bar )
       <<W_a, W_DAmp, W_LParen, W_a, W_DEqual, W_a, W_RParen>> }}  \* zoo && ( foo == bar )

\* an operand, a unary test, a negation, a connective, ]] and a lexer error
FaultAlphabet == {W_a, W_z, W_Bang, W_DAmp, W_DRightBracket, NoneVal}

\* the words f as the word reader returns them, each with its position
Src(f) == [i \in DOMAIN f |-> Stamp(f[i], i)]

\* the words f with a newline put in after the first i
InsertNewline(f, i) ==
  SubSeq(f, 1, i) \o <<W_Newline>> \o SubSeq(f, i + 1, Len(f))

\* the streams F with up to k newlines put in, anywhere
RECURSIVE WithNewlines(_, _)
WithNewlines(F, k) ==
  IF k = 0 THEN F
  ELSE WithNewlines(F, k - 1)
         \cup UNION {{InsertNewline(f, i) : i \in 0..Len(f)} :
                        f \in WithNewlines(F, k - 1)}

\* the word streams of the model: every stream of up to MaxLen words, every
\* stream of up to MaxCoreLen operands and connectives closed by ]], every
\* stream of up to MaxFaultLen words of FaultAlphabet, the tests' inputs,
\* and these with up to MaxNewlines newlines put in
Streams ==
  {Src(f) :
     f \in SeqsUpTo(Alphabet, MaxLen)
           \cup {s \o <<W_DRightBracket>> : s \in SeqsUpTo(CoreAlphabet, MaxCoreLen)}
           \cup SeqsUpTo(FaultAlphabet, MaxFaultLen)
           \cup WithNewlines(TestStreams, MaxNewlines)}

\* the records the word reader has pending after a failed read at position i
LexErrors(i) ==
  <<[msg |-> "Unexpected token", word |-> NoneVal, pos |-> i],
    [msg |-> "Error reading word", word |-> NoneVal, pos |-> i]>>

\* the Eof_Real word the reader returns at and past the end of the source
EofWord(i) == TokenWord([id |-> "Eof_Real", val |-> <<>>, pos |-> i])

\* the word reader after it returned w (None: a lexer error) for position i
AfterRead(s, lex_mode, i, w) ==
  [s |-> [s EXCEPT !.w_pos = i,
                   !.w_errors = IF w = NoneVal THEN @ \o LexErrors(i) ELSE @,
                   !.trace = Append(@, [ev |-> "ReadWord", mode |-> lex_mode,
                                        idx |-> i, w |-> w])],
   ret |-> w, exc |-> ""]

\* w_parser.ReadWord(lex_mode): the next word of the stream, Eof_Real past its
\* end, None (with the error records pending) on a lexer error
ReadWord(s, lex_mode) ==
  AfterRead(s, lex_mode, s.w_pos + 1,
            IF s.w_pos + 1 > Len(s.w_src) THEN EofWord(s.w_pos + 1)
            ELSE s.w_src[s.w_pos + 1])

\* w_parser.Error(): a non-destructive read of the pending errors
WParserError(s) == s.w_errors

\* libc.regex_parse(regex_str): is the string a valid POSIX ERE?  Here: every
\* "[" is closed by a later "]" and every "(" by a later ")"
RECURSIVE RegexScan(_, _)
RegexScan(str, open) ==
  IF str = <<>> THEN open = <<>>
  ELSE LET c == Head(str) IN
       IF open # <<>> /\ Head(open) = "[" THEN
         RegexScan(Tail(str), IF c = "]" THEN Tail(open) ELSE open)
       ELSE IF c \in {"[", "("} THEN RegexScan(Tail(str), <<c>> \o open)
       ELSE IF c = ")" THEN open # <<>> /\ RegexScan(Tail(str), Tail(open))
       ELSE RegexScan(Tail(str), open)

regex_parse(regex_str) == RegexScan(regex_str, <<>>)

----------------------------------------------------------------------------
(* osh/bool_parse.py: BoolParser *)

\* BoolParser.__init__(w_parser): the parser's fields, the word reader's
\* (what it will return read by read, None being a lexer error; how many
\* words it has returned; its pending errors) and the history of the calls
NewParser(src) ==
  [words |-> <<>>, cur_word |-> NoneVal, op_id |-> "Undefined_Tok",
   b_kind |-> "Undefined", error_stack |-> <<>>,
   w_src |-> src, w_pos |-> 0, w_errors |-> <<>>, trace |-> <<>>]

Ret(s, v) == [s |-> s, ret |-> v, exc |-> ""]
Raise(s, e) == [s |-> s, ret |-> NoneVal, exc |-> e]

\* base.MakeError(msg, word=word)
MakeError(msg, word) == [msg |-> msg, word |-> word, pos |-> 0]

\* BoolParser.AddErrorContext
AddErrorContext(s, msg, word) ==
  [s EXCEPT !.error_stack = Append(@, MakeError(msg, word))]

\* a call entered in the history
Log(s, e) == [s EXCEPT !.trace = Append(@, e)]

\* _NextOne, n in (0, 1), w being what ReadWord returned
NextOne_Read(r) ==
  IF r.ret = NoneVal THEN
    Ret([r.s EXCEPT !.error_stack = @ \o WParserError(r.s)], FALSE)
  ELSE Ret([r.s EXCEPT !.words = <<r.ret>>, !.cur_word = r.ret], TRUE)

\* a faulty NextOne_Shift, for C21: words[1] is not deleted
NextOne_Shift_NoDel(s, lex_mode) ==
  IF lex_mode # DBRACKET THEN Raise(s, "AssertionError")
  ELSE Ret([s EXCEPT !.words = <<s.words[2], s.words[2]>>, !.cur_word = s.words[2]], TRUE)

\* _NextOne, n == 2: the buffered lookahead word becomes the current word
NextOne_Shift(s, lex_mode) ==
  IF lex_mode # DBRACKET THEN Raise(s, "AssertionError")
  ELSE Ret([s EXCEPT !.words = <<s.words[2]>>, !.cur_word = s.words[2]], TRUE)

\* _NextOne, the if / elif on n = len(self.words)
NextOne_Word(s, lex_mode, n) ==
  IF n = 2 THEN NextOne_Shift(s, lex_mode)
  ELSE IF n \in {0, 1} THEN NextOne_Read(ReadWord(s, lex_mode))
  ELSE Ret(s, TRUE)

\* the tail of _NextOne: op_id and b_kind of the current word
SetOpId(s, id) ==
  [s EXCEPT !.op_id = id, !.b_kind = LookupKind(id),
            !.trace = Append(@, [ev |-> "cur", w |-> s.cur_word])]

\* _NextOne after the if / elif: return False, or set op_id and b_kind
NextOne_Tail(r) ==
  IF r.exc # "" \/ ~r.ret THEN r
  ELSE Ret(SetOpId(r.s, BoolId(r.s.cur_word)), TRUE)

\* BoolParser._NextOne
_NextOne(s, lex_mode) ==
  NextOne_Tail(
    NextOne_Word(Log(s, [ev |-> "_NextOne", n |-> Len(s.words), mode |-> lex_mode]),
                 lex_mode, Len(s.words)))

\* a faulty Next_Step, for C23: a newline is not skipped
Next_Step_NoSkip(r, lex_mode) ==
  IF r.exc # "" THEN r
  ELSE IF ~r.ret THEN Ret(r.s, FALSE)
  ELSE Ret(r.s, TRUE)

RECURSIVE _Next(_, _)

\* _Next, one turn of the loop: r is what _NextOne returned
Next_Step(r, lex_mode) ==
  IF r.exc # "" THEN r
  ELSE IF ~r.ret THEN Ret(r.s, FALSE)
  ELSE IF r.s.op_id # "Op_Newline" THEN Ret(r.s, TRUE)
  ELSE _Next(r.s, lex_mode)

\* BoolParser._Next: advance, skipping newlines
_Next(s, lex_mode) == Next_Step(_NextOne(s, lex_mode), lex_mode)

\* BoolParser.AtEnd
AtEnd(s) == s.op_id = "Lit_DRightBracket"

\* a faulty LookAhead_Save, for C22: the word read is not saved
LookAhead_Save_Dropped(r) == Ret(r.s, r.ret)

\* _LookAhead: the word read is saved for _Next() and returned
LookAhead_Save(r) == Ret([r.s EXCEPT !.words = Append(@, r.ret)], r.ret)

\* BoolParser._LookAhead
_LookAhead(s) ==
  IF Len(s.words) # 1 THEN
    Raise(Log(s, [ev |-> "_LookAhead", n |-> Len(s.words)]), "AssertionError")
  ELSE LookAhead_Save(
         ReadWord(Log(s, [ev |-> "_LookAhead", n |-> Len(s.words)]), DBRACKET))

\* UnaryExprNode(op, word)
UnaryExprNode(op_id, child) ==
  [cls |-> "UnaryExprNode", id |-> "Node_UnaryExpr", op_id |-> op_id, child |-> child]

\* BinaryExprNode(op, left, right)
BinaryExprNode(op_id, left, right) ==
  [cls |-> "BinaryExprNode", id |-> "Node_BinaryExpr", op_id |-> op_id,
   left |-> left, right |-> right]

\* ast.LogicalNot(child)
LogicalNot(child) == [cls |-> "LogicalNot", child |-> child]

\* "if not self._Next(): return None": r is what the call returned; an
\* exception propagates, False makes the caller return None, else K goes on
IfNot(r, K(_)) ==
  IF r.exc # "" THEN r
  ELSE IF r.ret = FALSE THEN Ret(r.s, NoneVal)
  ELSE K(r)

\* r is what a call returned: an exception propagates, else K goes on
Try(r, K(_)) == IF r.exc # "" THEN r ELSE K(r)

RECURSIVE ParseExpr(_)
RECURSIVE ParseTerm(_)
RECURSIVE ParseNegatedFactor(_)
RECURSIVE ParseFactor(_)

\* a faulty ParseFactor_Unary, for C12: the operator is taken after the
\* advance
ParseFactor_Unary_Late(s) ==
  IfNot(_Next(s, DBRACKET), LAMBDA r1 :
    IfNot(_Next(r1.s, DBRACKET), LAMBDA r2 :
      Ret(r2.s, UnaryExprNode(r1.s.op_id, r1.s.cur_word))))

\* ParseFactor, b_kind == Kind.BoolUnary: UNARY_OP WORD
ParseFactor_Unary(s) ==
  IfNot(_Next(s, DBRACKET), LAMBDA r1 :
    IfNot(_Next(r1.s, DBRACKET), LAMBDA r2 :
      Ret(r2.s, UnaryExprNode(s.op_id, r1.s.cur_word))))

\* the second lookahead word announces a binary operator
IsBinaryKind(t2_b_kind) == t2_b_kind \in {"BoolBinary", "Redir"}

\* is_regex = t2_op_id == Id.BoolBinary_EqualTilde
IsRegex(t2_op_id) == t2_op_id = "BoolBinary_EqualTilde"

\* a faulty RightOperandMode, for C7: the regex mode is never requested
RightOperandMode_Never(is_regex) == DBRACKET

\* the mode of the read of the right operand: BASH_REGEX after =~
RightOperandMode(is_regex) == IF is_regex THEN BASH_REGEX ELSE DBRACKET

\* a faulty RegexRejected, for C8: the regex is not validated
RegexRejected_Never(ok, regex_str) == FALSE

\* "if ok and not libc.regex_parse(regex_str)"
RegexRejected(ok, regex_str) == ok /\ ~regex_parse(regex_str)

\* libc.regex_parse is called only when ok ("ok and not ..."): the call is
\* entered in the history
LogRegex(s, ev) ==
  IF ev[1] THEN Log(s, [ev |-> "regex_parse", str |-> ev[2]]) ELSE s

\* "if is_regex: ..." on the right operand: the parser state with the error
\* pushed and rejected = TRUE, or unchanged; AttributeError when the word
\* has no EvalStatic
CheckRegex(s, is_regex, right) ==
  IF ~is_regex THEN Ret(s, FALSE)
  ELSE IF right.cls # "CompoundWord" THEN Raise(s, "AttributeError")
  ELSE IF RegexRejected(EvalStatic(right)[1], EvalStatic(right)[2]) THEN
    Ret(AddErrorContext(LogRegex(s, EvalStatic(right)), "Invalid regex", right), TRUE)
  ELSE Ret(LogRegex(s, EvalStatic(right)), FALSE)

\* a faulty ParseFactor_Binary, for C1: the operands exchanged
ParseFactor_Binary_Exchanged(s, t2_op_id) ==
  IfNot(_Next(s, DBRACKET), LAMBDA r1 :
    IfNot(_Next(r1.s, RightOperandMode(IsRegex(t2_op_id))), LAMBDA r2 :
      Try(CheckRegex(r2.s, IsRegex(t2_op_id), r2.s.cur_word), LAMBDA c :
        IF c.ret THEN Ret(c.s, NoneVal)
        ELSE IfNot(_Next(c.s, DBRACKET), LAMBDA r3 :
               Ret(r3.s, BinaryExprNode(r1.s.op_id, r2.s.cur_word, s.cur_word))))))

\* ParseFactor, the lookahead is a binary operator: WORD BINARY_OP WORD
ParseFactor_Binary(s, t2_op_id) ==
  IfNot(_Next(s, DBRACKET), LAMBDA r1 :
    IfNot(_Next(r1.s, RightOperandMode(IsRegex(t2_op_id))), LAMBDA r2 :
      Try(CheckRegex(r2.s, IsRegex(t2_op_id), r2.s.cur_word), LAMBDA c :
        IF c.ret THEN Ret(c.s, NoneVal)
        ELSE IfNot(_Next(c.s, DBRACKET), LAMBDA r3 :
               Ret(r3.s, BinaryExprNode(r1.s.op_id, s.cur_word, r2.s.cur_word))))))

\* ParseFactor, b_kind == Kind.Word, no binary operator follows: WORD
ParseFactor_Lone(s) ==
  IfNot(_Next(s, DBRACKET), LAMBDA r : Ret(r.s, s.cur_word))

\* t2.BoolId() on what _LookAhead returned: None has no BoolId
LookAheadId(la) ==
  IF la.ret = NoneVal THEN Raise(la.s, "AttributeError")
  ELSE Ret(la.s, BoolId(la.ret))

\* ParseFactor, b_kind == Kind.Word: WORD, or WORD BINARY_OP WORD
ParseFactor_Word(s) ==
  Try(_LookAhead(s), LAMBDA la :
    Try(LookAheadId(la), LAMBDA t2 :
      IF IsBinaryKind(LookupKind(t2.ret)) THEN ParseFactor_Binary(t2.s, t2.ret)
      ELSE ParseFactor_Lone(t2.s)))

\* a faulty ParseFactor_Paren, for C5: the ) is not passed
ParseFactor_Paren_NotPassed(s) ==
  IfNot(_Next(s, DBRACKET), LAMBDA r1 :
    Try(ParseExpr(r1.s), LAMBDA e :
      IF e.s.op_id # "Op_RParen" THEN Raise(e.s, "RuntimeError")
      ELSE Ret(e.s, e.ret)))

\* ParseFactor, op_id == Id.Op_LParen: '(' Expr ')'
ParseFactor_Paren(s) ==
  IfNot(_Next(s, DBRACKET), LAMBDA r1 :
    Try(ParseExpr(r1.s), LAMBDA e :
      IF e.s.op_id # "Op_RParen" THEN Raise(e.s, "RuntimeError")
      ELSE IfNot(_Next(e.s, DBRACKET), LAMBDA r2 : Ret(r2.s, e.ret))))

\* BoolParser.ParseFactor
ParseFactor(s) ==
  IF s.b_kind = "BoolUnary" THEN ParseFactor_Unary(s)
  ELSE IF s.b_kind = "Word" THEN ParseFactor_Word(s)
  ELSE IF s.op_id = "Op_LParen" THEN ParseFactor_Paren(s)
  ELSE Raise(s, "AssertionError")

\* the ParseNegatedFactor of the line left commented out in the source,
\* "return UnaryExprNode(Id.KW_Bang, child)", for C4
ParseNegatedFactor_UnaryBang(s) ==
  IF s.op_id = "KW_Bang" THEN
    IfNot(_Next(s, DBRACKET), LAMBDA r :
      Try(ParseFactor(r.s), LAMBDA c : Ret(c.s, UnaryExprNode("KW_Bang", c.ret))))
  ELSE ParseFactor(s)

\* a faulty ParseNegatedFactor, for C3: the ! covers the whole term
ParseNegatedFactor_WholeTerm(s) ==
  IF s.op_id = "KW_Bang" THEN
    IfNot(_Next(s, DBRACKET), LAMBDA r :
      Try(ParseTerm(r.s), LAMBDA c : Ret(c.s, LogicalNot(c.ret))))
  ELSE ParseFactor(s)

\* BoolParser.ParseNegatedFactor
ParseNegatedFactor(s) ==
  IF s.op_id = "KW_Bang" THEN
    IfNot(_Next(s, DBRACKET), LAMBDA r :
      Try(ParseFactor(r.s), LAMBDA c : Ret(c.s, LogicalNot(c.ret))))
  ELSE ParseFactor(s)

\* a faulty ParseTerm, for C2: the right side of && is a whole expression
ParseTerm_NoPrecedence(s) ==
  Try(ParseNegatedFactor(s), LAMBDA l :
    IF l.s.op_id = "Op_DAmp" THEN
      IfNot(_Next(l.s, DBRACKET), LAMBDA r :
        Try(ParseExpr(r.s), LAMBDA t :
          Ret(t.s, BinaryExprNode("Op_DAmp", l.ret, t.ret))))
    ELSE l)

\* BoolParser.ParseTerm
ParseTerm(s) ==
  Try(ParseNegatedFactor(s), LAMBDA l :
    IF l.s.op_id = "Op_DAmp" THEN
      IfNot(_Next(l.s, DBRACKET), LAMBDA r :
        Try(ParseTerm(r.s), LAMBDA t :
          Ret(t.s, BinaryExprNode("Op_DAmp", l.ret, t.ret))))
    ELSE l)

\* BoolParser.ParseExpr
ParseExpr(s) ==
  Try(ParseTerm(s), LAMBDA l :
    IF l.s.op_id = "Op_DPipe" THEN
      IfNot(_Next(l.s, DBRACKET), LAMBDA r :
        Try(ParseExpr(r.s), LAMBDA e :
          Ret(e.s, BinaryExprNode("Op_DPipe", l.ret, e.ret))))
    ELSE l)

\* BoolParser.Parse
Parse(s) ==
  IfNot(_Next(s, DBRACKET), LAMBDA r :
    Try(ParseExpr(r.s), LAMBDA e :
      IF ~AtEnd(e.s) THEN
        Ret(AddErrorContext(e.s, "Unexpected extra word", e.s.cur_word), NoneVal)
      ELSE e))

----------------------------------------------------------------------------
(* The construction of the registry as a state machine: the calls of the    *)
(* methods of an IdSpec one after the other, and the import of the module:  *)
(* _AddKinds(ID_SPEC), _AddBoolKinds(ID_SPEC), the redirect tables.         *)

\* the arguments of the calls made on an IdSpec other than ID_SPEC
KindNames == {"Lit", "Op"}
TokenLists == {<<"Amp">>, <<"Amp", "Pipe">>, <<"Amp", "Amp">>}
ArgPairs(tokens) ==
  [i \in DOMAIN tokens |-> <<tokens[i], IF tokens[i] = "Amp" THEN "&" ELSE "|">>]
ArgTypes == {"Str", "Int"}

InitRegistry ==
  /\ id_kind = NewIdKind
  /\ self = NoneVal
  /\ parser = NoneVal
  /\ pc = "spec"
  /\ called = ""
  /\ ret = NoneVal
  /\ exc = ""

\* one more call can be made on the object
MoreCalls ==
  /\ pc \in {"spec", "calls"}
  /\ Len(id_kind.ID_SPEC.calls) < MaxCalls

SetSpec(spec, at) ==
  /\ id_kind' = [id_kind EXCEPT !.ID_SPEC = spec]
  /\ pc' = at
  /\ UNCHANGED <<self, parser, called, ret, exc>>

CallAddKind ==
  /\ MoreCalls
  /\ \E kind_name \in KindNames, tokens \in TokenLists :
       SetSpec(AddKind(id_kind.ID_SPEC, kind_name, tokens), "calls")

CallAddKindPairs ==
  /\ MoreCalls
  /\ \E kind_name \in KindNames, tokens \in TokenLists :
       SetSpec(AddKindPairs(id_kind.ID_SPEC, kind_name, ArgPairs(tokens)), "calls")

CallAddBoolKind ==
  /\ MoreCalls
  /\ \E kind_name \in KindNames, tokens \in TokenLists, arg_type \in ArgTypes :
       SetSpec(AddBoolKind(id_kind.ID_SPEC, kind_name,
                           << <<arg_type, ArgPairs(tokens)>> >>), "calls")

\* _AddKinds(ID_SPEC)
Call_AddKinds ==
  /\ pc = "spec"
  /\ SetSpec(_AddKinds(id_kind.ID_SPEC), "kinds")

\* _AddBoolKinds(ID_SPEC)
Call_AddBoolKinds ==
  /\ pc = "kinds"
  /\ \E unary_order \in Orders(Len(BOOL_KIND_TOKENS[1][2])),
        binary_order \in Orders(Len(BOOL_KIND_TOKENS[2][2])) :
       SetSpec(_AddBoolKinds(id_kind.ID_SPEC, unary_order, binary_order),
               "bool_kinds")

\* REDIR_DEFAULT_FD = {...}; REDIR_TYPE = {...}
DefineRedirTables ==
  /\ pc = "bool_kinds"
  /\ id_kind' = [id_kind EXCEPT
                   !.REDIR_DEFAULT_FD = RedirTable(id_kind.ID_SPEC, REDIR_DEFAULT_FD_ITEMS),
                   !.REDIR_TYPE = RedirTable(id_kind.ID_SPEC, REDIR_TYPE_ITEMS)]
  /\ pc' = "imported"
  /\ UNCHANGED <<self, parser, called, ret, exc>>

NextRegistry ==
  \/ CallAddKind
  \/ CallAddKindPairs
  \/ CallAddBoolKind
  \/ Call_AddKinds
  \/ Call_AddBoolKinds
  \/ DefineRedirTables

SpecRegistry == InitRegistry /\ [][NextRegistry]_vars

----------------------------------------------------------------------------
(* The methods of a word as a state machine: a word is built, and one of    *)
(* its methods is called on it; EvalStatic can be called a second time.     *)

\* the parts words are built of
P_Chars == LiteralPart(Token("Lit_Chars", <<"a">>))
P_VarLike == LiteralPart(Token("Lit_VarLike", <<"x", "=">>))
P_VarLike2 == LiteralPart(Token("Lit_VarLike", <<"a", "b", "=">>))
P_Bang == LiteralPart(Token("KW_Bang", <<"!">>))
P_Escaped == EscapedLiteralPart(Token("Lit_EscapedChar", <<"\\", "n">>))
P_SingleQuoted == SingleQuotedPart(<<Token("Lit_Chars", <<"E", "O", "F">>)>>)
P_SingleQuoted2 ==
  SingleQuotedPart(<<Token("Lit_Chars", <<"E">>), Token("Lit_Chars", <<"O", "F">>)>>)
P_VarSub == VarSubPart(<<"v">>, NoneVal)
P_CommandSub == CommandSubPart(Token("Left_CommandSub", <<"$", "(">>), NoneVal)
P_ArithSub == ArithSubPart(NoneVal)
P_TildeSub == TildeSubPart(<<>>)
P_DoubleQuoted == DoubleQuotedPart(<<P_Chars, P_Escaped>>)
P_DoubleQuotedEmpty == DoubleQuotedPart(<<>>)
P_DoubleQuotedVar == DoubleQuotedPart(<<P_Chars, P_VarSub>>)
P_DoubleQuotedCommand == DoubleQuotedPart(<<P_CommandSub>>)
P_DoubleQuotedArith == DoubleQuotedPart(<<P_Chars, P_ArithSub>>)

Parts ==
  {P_Chars, P_VarLike, P_VarLike2, P_Bang, P_Escaped, P_SingleQuoted,
   P_SingleQuoted2, SingleQuotedPart(<<>>), P_VarSub, P_CommandSub, P_ArithSub,
   P_TildeSub, ArrayLiteralPart, P_DoubleQuoted, P_DoubleQuotedEmpty,
   P_DoubleQuotedVar, P_DoubleQuotedCommand, P_DoubleQuotedArith}

\* the registered Id names
Ids == DOMAIN ID_TO_KIND

\* the words: a single literal part of any Id, a token of any Id, up to
\* MaxParts parts of any class
\* a text of a token of this Id: a Lit_VarLike token is a name and a =
TextOf(id) == IF id = "Lit_VarLike" THEN <<"t", "=">> ELSE <<"t">>

Words ==
  {CompoundWord(<<LiteralPart(Token(id, TextOf(id)))>>) : id \in Ids}
    \cup {TokenWord(Token(id, TextOf(id))) : id \in Ids}
    \cup {CompoundWord(parts) : parts \in SeqsUpTo(Parts, MaxParts)}

InitWord ==
  /\ id_kind = NewIdKind
  /\ self \in Words
  /\ parser = NoneVal
  /\ pc = "word"
  /\ called = ""
  /\ ret = NoneVal
  /\ exc = ""

\* the method called name leaves self as s and returns r or raises e
Leaves(name, s, r, e) ==
  /\ self' = s
  /\ ret' = r
  /\ exc' = e
  /\ called' = name
  /\ pc' = "done"
  /\ UNCHANGED <<id_kind, parser>>

CallBoolId == pc = "word" /\ Leaves("BoolId", self, BoolId(self), "")

CallCommandId == pc = "word" /\ Leaves("CommandId", self, CommandId(self), "")

CallArithId == pc = "word" /\ Leaves("ArithId", self, ArithId(self), "")

\* what Leaves is given of the record LooksLikeAssignment yields
LeavesAs(name, r) == Leaves(name, r.self, r.ret, r.exc)

\* TokenWord has no such method
CallLooksLikeAssignment ==
  /\ pc = "word"
  /\ IF self.cls = "TokenWord"
     THEN Leaves("LooksLikeAssignment", self, NoneVal, "AttributeError")
     ELSE LeavesAs("LooksLikeAssignment", LooksLikeAssignment(self))

\* what Leaves is given of the tuple EvalStatic yields
LeavesTuple(name, r) ==
  IF Len(r) > 3 THEN Leaves(name, self, NoneVal, r[4])
  ELSE Leaves(name, self, r, "")

\* TokenWord has no such method
CallEvalStatic ==
  /\ pc = "word"
  /\ IF self.cls = "TokenWord"
     THEN Leaves("EvalStatic", self, NoneVal, "AttributeError")
     ELSE LeavesTuple("EvalStatic", EvalStatic(self))

\* the call repeated on the word the first call left: ret holds what both
\* calls returned
CallEvalStaticAgain ==
  /\ pc = "done"
  /\ called = "EvalStatic"
  /\ exc = ""
  /\ pc' = "again"
  /\ ret' = [first |-> ret, again |-> EvalStatic(self)]
  /\ UNCHANGED <<id_kind, self, parser, called, exc>>

NextWord ==
  \/ CallBoolId
  \/ CallCommandId
  \/ CallArithId
  \/ CallLooksLikeAssignment
  \/ CallEvalStatic
  \/ CallEvalStaticAgain

SpecWord == InitWord /\ [][NextWord]_vars

----------------------------------------------------------------------------
(* The state machine: a parser is constructed over a word stream, and one  *)
(* of its entry points is called                                            *)

Init ==
  /\ id_kind = NewIdKind
  /\ self = NoneVal
  /\ parser \in {NewParser(src) : src \in Streams}
  /\ pc = "new"
  /\ called = ""
  /\ ret = NoneVal
  /\ exc = ""

\* the outcome r of the call of an entry point
Return(name, r) ==
  /\ parser' = r.s
  /\ ret' = r.ret
  /\ exc' = r.exc
  /\ called' = name
  /\ pc' = "done"
  /\ UNCHANGED <<id_kind, self>>

\* p.Parse() on a fresh parser
CallParse ==
  /\ pc = "new"
  /\ Return("Parse", Parse(parser))

\* bool_parse_test._MakeParser: "if not p._Next(): raise AssertionError"
MakeParserNext(r) ==
  IF r.exc = "" /\ r.ret THEN
    /\ parser' = r.s
    /\ pc' = "ready"
    /\ UNCHANGED <<id_kind, self, called, ret, exc>>
  ELSE Return("_MakeParser", IF r.exc # "" THEN r ELSE Raise(r.s, "AssertionError"))

\* bool_parse_test._MakeParser: a parser that stands on its first word
MakeParser ==
  /\ pc = "new"
  /\ MakeParserNext(_Next(parser, DBRACKET))

\* p.ParseFactor() on a parser that stands on its first word
CallParseFactor ==
  /\ pc = "ready"
  /\ Return("ParseFactor", ParseFactor(parser))

\* p.ParseNegatedFactor() on a parser that stands on its first word
CallParseNegatedFactor ==
  /\ pc = "ready"
  /\ Return("ParseNegatedFactor", ParseNegatedFactor(parser))

\* p.ParseTerm() on a parser that stands on its first word
CallParseTerm ==
  /\ pc = "ready"
  /\ Return("ParseTerm", ParseTerm(parser))

\* p.ParseExpr() on a parser that stands on its first word
CallParseExpr ==
  /\ pc = "ready"
  /\ Return("ParseExpr", ParseExpr(parser))

Next ==
  \/ CallParse
  \/ MakeParser
  \/ CallParseFactor
  \/ CallParseNegatedFactor
  \/ CallParseTerm
  \/ CallParseExpr

Spec == Init /\ [][Next]_vars

----------------------------------------------------------------------------
(* The vocabulary of the properties                                        *)

\* the words the word reader has to return, read by read
stream == parser.w_src

\* the entry point called has come back (with a value or an exception)
Done(name) == pc = "done" /\ called = name

\* the entry point called has returned a node
Returned(name) == Done(name) /\ exc = "" /\ ret # NoneVal

\* what the word reader returns for position i
At(i) == IF i > Len(stream) THEN EofWord(i) ELSE stream[i]

\* the Kind of a word's BoolId; "None" for a failed read
KindOf(w) == IF w = NoneVal THEN "None" ELSE LookupKind(BoolId(w))

IdOf(w) == IF w = NoneVal THEN "None" ELSE BoolId(w)

IsNewline(w) == IdOf(w) = "Op_Newline"

\* position i holds a word: neither a failed read nor a newline
IsWord(i) == At(i) # NoneVal /\ ~IsNewline(At(i))

\* the first position from i on that does not hold a newline
RECURSIVE SkipNewlines(_)
SkipNewlines(i) == IF IsNewline(At(i)) THEN SkipNewlines(i + 1) ELSE i

\* advancing to position i, newlines skipped, meets no failed read
Readable(i) == At(SkipNewlines(i)) # NoneVal

\* the position of the word a parser made by _MakeParser stands on
FirstPos == SkipNewlines(1)

\* node n is Binary with operator op
IsBin(n, op) == n.cls = "BinaryExprNode" /\ n.op_id = op

\* the lone word at k: the word after it is no binary operator (its Kind is
\* neither BoolBinary nor Redir, the two Kinds ParseFactor takes for one)
LoneAt(k) ==
  /\ KindOf(At(k)) = "Word"
  /\ At(k + 1) # NoneVal
  /\ KindOf(At(k + 1)) \notin {"BoolBinary", "Redir"}
  /\ Readable(k + 1)

\* UNARY_OP WORD at k, and the word after them can be read
UnaryAt(k) ==
  /\ KindOf(At(k)) = "BoolUnary"
  /\ IsWord(k + 1)
  /\ Readable(k + 2)

\* the right operand of =~ passes the check ParseFactor makes of it
RegexAccepted(w) ==
  /\ w.cls = "CompoundWord"
  /\ ~(EvalStatic(w)[1] /\ ~regex_parse(EvalStatic(w)[2]))

\* WORD BINARY_OP WORD at k, and the word after them can be read
BinaryAt(k) ==
  /\ KindOf(At(k)) = "Word"
  /\ KindOf(At(k + 1)) = "BoolBinary"
  /\ IsWord(k + 2)
  /\ IdOf(At(k + 1)) = "BoolBinary_EqualTilde" => RegexAccepted(At(k + 2))
  /\ Readable(k + 3)

\* e and node are the outcome the factor that starts at position k must have
FactorAt(k, e, node) ==
  /\ LoneAt(k) => e = "" /\ node = At(k)
  /\ UnaryAt(k) => e = "" /\ node = UnaryExprNode(BoolId(At(k)), At(k + 1))
  /\ BinaryAt(k) =>
       e = "" /\ node = BinaryExprNode(BoolId(At(k + 1)), At(k), At(k + 2))

----------------------------------------------------------------------------
(* C1 *)

\* C1: ParseFactor builds the factor's node from the words exactly as read.
\* A lone word W, the next word being no binary operator, yields W itself;
\* a word of Kind BoolUnary followed by a word W yields Unary(its Id, W); a
\* word L followed by a word of Kind BoolBinary and a word R yields
\* Binary(its Id, L, R).
C1_FactorFromWords ==
  Done("ParseFactor") => FactorAt(FirstPos, exc, ret)

\* ParseFactor has returned the Binary node of WORD BINARY_OP WORD
C1_Witness ==
  /\ Done("ParseFactor")
  /\ BinaryAt(FirstPos)
  /\ ret.cls = "BinaryExprNode"
  /\ ret.left # ret.right

----------------------------------------------------------------------------
(* C2 *)

\* the stream holds operands, !, && , || and ]] only: no test operator, no
\* parenthesis, no failed read
PlainStream ==
  \A i \in DOMAIN stream :
    IdOf(stream[i]) \in
      {"Word_Compound", "KW_Bang", "Op_DAmp", "Op_DPipe", "Lit_DRightBracket"}

\* a connective with the given Id stands before the parser's current word
ConnectiveBefore(id) ==
  \E i \in DOMAIN stream :
    i < WordPos(parser.cur_word) /\ IdOf(stream[i]) = id

\* || is never under && nor at the left of ||, && never at the left of &&
RECURSIVE RightLeaning(_)
RightLeaning(n) ==
  IF IsBin(n, "Op_DPipe") THEN
    /\ ~IsBin(n.left, "Op_DPipe")
    /\ RightLeaning(n.left) /\ RightLeaning(n.right)
  ELSE IF IsBin(n, "Op_DAmp") THEN
    /\ ~IsBin(n.left, "Op_DAmp") /\ ~IsBin(n.left, "Op_DPipe")
    /\ ~IsBin(n.right, "Op_DPipe")
    /\ RightLeaning(n.left) /\ RightLeaning(n.right)
  ELSE IF n.cls = "LogicalNot" THEN RightLeaning(n.child)
  ELSE TRUE

\* the node of OPERAND op1 OPERAND op2 OPERAND ]] is as given
Chain(op1, op2, node) ==
  stream = Src(<<W_a, op1, W_a, op2, W_a, W_DRightBracket>>) =>
    exc = "" /\ ret = node

\* C2: in every successful parse && binds tighter than || and chains lean
\* to the right: a || b && c is Binary(||, a, Binary(&&, b, c)), a && b || c
\* is Binary(||, Binary(&&, a, b), c), a && b && c is
\* Binary(&&, a, Binary(&&, b, c)), the same for ||; the root of a term that
\* contains && is Binary with Op_DAmp, the root of an expression that
\* contains a top-level || is Binary with Op_DPipe.
C2_Precedence ==
  /\ Done("Parse") \/ Done("ParseExpr") =>
       /\ Chain(W_DPipe, W_DAmp,
                BinaryExprNode("Op_DPipe", At(1),
                               BinaryExprNode("Op_DAmp", At(3), At(5))))
       /\ Chain(W_DAmp, W_DPipe,
                BinaryExprNode("Op_DPipe",
                               BinaryExprNode("Op_DAmp", At(1), At(3)), At(5)))
       /\ Chain(W_DAmp, W_DAmp,
                BinaryExprNode("Op_DAmp", At(1),
                               BinaryExprNode("Op_DAmp", At(3), At(5))))
       /\ Chain(W_DPipe, W_DPipe,
                BinaryExprNode("Op_DPipe", At(1),
                               BinaryExprNode("Op_DPipe", At(3), At(5))))
  /\ (Returned("Parse") \/ Returned("ParseExpr") \/ Returned("ParseTerm"))
       /\ PlainStream =>
       /\ ConnectiveBefore("Op_DPipe") => IsBin(ret, "Op_DPipe")
       /\ ConnectiveBefore("Op_DAmp") /\ ~ConnectiveBefore("Op_DPipe") =>
            IsBin(ret, "Op_DAmp")
       /\ RightLeaning(ret)

\* Parse has returned the node of a && b || c
C2_Witness ==
  /\ Returned("Parse")
  /\ stream = Src(<<W_a, W_DAmp, W_a, W_DPipe, W_a, W_DRightBracket>>)
  /\ IsBin(ret, "Op_DPipe") /\ IsBin(ret.left, "Op_DAmp")

----------------------------------------------------------------------------
(* C3 *)

\* the child of a LogicalNot node, None for any other node
ChildOf(n) == IF n.cls = "LogicalNot" THEN n.child ELSE NoneVal

----------------------------------------------------------------------------
(* C4 *)

\* ! WORD ]] and WORD ]], the inputs of testParseNegatedFactor
NotWord == Src(<<W_Bang, W_a, W_DRightBracket>>)
JustWord == Src(<<W_a, W_DRightBracket>>)

----------------------------------------------------------------------------
(* C5 *)

\* the words between the ( at position 1 and position c, closed by ]]
Inside(c) == Append(SubSeq(stream, 2, c - 1), Stamp(W_DRightBracket, c))

\* r is the outcome of Parse over E ]]: E is a correct expression when
\* Parse returns a node and has read all of E and the ]] after it
CorrectExpr(r, n) == r.exc = "" /\ r.ret # NoneVal /\ r.s.w_pos = n

\* the factor ( E ) ends at position c: a ) stands there, no read between
\* the parentheses fails, and what follows the ) can be read
ParenAt(c) ==
  /\ IdOf(At(1)) = "Op_LParen"
  /\ IdOf(At(c)) = "Op_RParen"
  /\ \A i \in 2..(c - 1) : At(i) # NoneVal
  /\ Readable(c + 1)

\* the factor has the outcome r of parsing E, and the parser stands on the
\* word after the ) at position c, the last one read
SameAsInside(r, c) ==
  /\ exc = ""
  /\ ret = r.ret
  /\ parser.cur_word = At(SkipNewlines(c + 1))
  /\ parser.w_pos = SkipNewlines(c + 1)

\* C5: for every correct expression E, parsing ( E ) as a factor returns
\* exactly the node that parsing E returns, no wrapper added and no child
\* changed, and the parser then stands on the word after the ).
C5_ParenTransparent ==
  Done("ParseFactor") =>
    \A c \in 3..Len(stream) :
      ParenAt(c) /\ CorrectExpr(Parse(NewParser(Inside(c))), c - 1) =>
        SameAsInside(Parse(NewParser(Inside(c))), c)

\* ParseFactor has returned the Binary node of the E of ( E )
C5_Witness ==
  /\ Done("ParseFactor")
  /\ \E c \in 3..Len(stream) :
       ParenAt(c) /\ CorrectExpr(Parse(NewParser(Inside(c))), c - 1)
  /\ ret.cls = "BinaryExprNode"

----------------------------------------------------------------------------
(* C6 *)

\* the parser stands on the terminator, and that ]] is the last word it
\* has requested from the word reader
AtTerminator ==
  /\ AtEnd(parser)
  /\ parser.op_id = "Lit_DRightBracket"
  /\ IdOf(parser.cur_word) = "Lit_DRightBracket"
  /\ parser.w_pos = WordPos(parser.cur_word)

\* the input is one construct followed by ]]: its last word is ]] and the
\* parser has read all of it and nothing more
OneConstruct ==
  /\ stream # <<>>
  /\ IdOf(stream[Len(stream)]) = "Lit_DRightBracket"
  /\ parser.w_pos = Len(stream)

\* C6: whenever Parse returns a node, and whenever ParseFactor,
\* ParseNegatedFactor, ParseTerm or ParseExpr returns a node for an input
\* that is exactly one such construct followed by ]], the current word is
\* the terminator: AtEnd() is true, op_id = Lit_DRightBracket, and that ]]
\* is the last word requested from the word reader.
C6_EndsAtTerminator ==
  /\ Returned("Parse") => AtTerminator
  /\ \A name \in {"ParseFactor", "ParseNegatedFactor", "ParseTerm", "ParseExpr"} :
       Returned(name) /\ OneConstruct => AtTerminator

----------------------------------------------------------------------------
(* C7 *)

\* the places of the history where a word is requested from the reader
ReadIdx == {t \in DOMAIN parser.trace : parser.trace[t].ev = "ReadWord"}

\* read u is the last read before read t
LastReadBefore(u, t) ==
  u < t /\ \A v \in ReadIdx : v < t => v <= u

\* read u, made by _LookAhead, returned a =~ : the binary operator is
\* recognized as BoolBinary_EqualTilde
RecognizesRegexOp(u) ==
  /\ u > 1
  /\ parser.trace[u - 1].ev = "_LookAhead"
  /\ IdOf(parser.trace[u].w) = "BoolBinary_EqualTilde"

\* read t fetches the right operand of a =~ : it is the first read after
\* the operator was recognized, or follows a newline such a read returned
FetchesRegexOperand(t) ==
  \E u \in ReadIdx :
    /\ LastReadBefore(u, t)
    /\ \/ RecognizesRegexOp(u)
       \/ parser.trace[u].mode = BASH_REGEX /\ IsNewline(parser.trace[u].w)

\* the positions of the words returned by a BASH_REGEX read
RegexPositions ==
  {parser.trace[t].idx : t \in {u \in ReadIdx : parser.trace[u].mode = BASH_REGEX}}

\* the operand words of a node, each with whether it is the right operand
\* of a =~
RECURSIVE OperandWords(_)
OperandWords(n) ==
  CASE n.cls = "None" -> {}
    [] n.cls = "LogicalNot" -> OperandWords(n.child)
    [] n.cls = "UnaryExprNode" -> {[w |-> n.child, rx |-> FALSE]}
    [] n.cls = "BinaryExprNode" /\ n.op_id \in {"Op_DAmp", "Op_DPipe"} ->
         OperandWords(n.left) \cup OperandWords(n.right)
    [] n.cls = "BinaryExprNode" /\ n.op_id \notin {"Op_DAmp", "Op_DPipe"} ->
         {[w |-> n.left, rx |-> FALSE],
          [w |-> n.right, rx |-> n.op_id = "BoolBinary_EqualTilde"]}
    [] OTHER -> {[w |-> n, rx |-> FALSE]}

\* C7: every read the parser issues requests DBRACKET, except the reads
\* that fetch the right operand of a binary operator recognized as
\* BoolBinary_EqualTilde, which request BASH_REGEX; so in every Binary node
\* whose op is BoolBinary_EqualTilde the right operand is a word returned
\* by a BASH_REGEX read, and no other operand of any node is.
C7_ReadModes ==
  /\ \A t \in ReadIdx :
       parser.trace[t].mode =
         IF FetchesRegexOperand(t) THEN BASH_REGEX ELSE DBRACKET
  /\ pc = "done" /\ exc = "" =>
       \A x \in OperandWords(ret) : x.rx <=> WordPos(x.w) \in RegexPositions

\* a Binary node of =~ has been returned, its right operand read in the
\* regex mode
C7_Witness ==
  /\ pc = "done" /\ exc = ""
  /\ IsBin(ret, "BoolBinary_EqualTilde")
  /\ WordPos(ret.right) \in RegexPositions

----------------------------------------------------------------------------
(* C8 *)

\* WORD =~ WORD stands at k
RegexTestAt(k) ==
  /\ KindOf(At(k)) = "Word"
  /\ IdOf(At(k + 1)) = "BoolBinary_EqualTilde"
  /\ IsWord(k + 2)
  /\ At(k + 2).cls = "CompoundWord"

\* the right operand w evaluates statically to a string that is no regex
InvalidRegex(w) == EvalStatic(w)[1] /\ ~regex_parse(EvalStatic(w)[2])

\* the regex validator has been consulted
Consulted == \E t \in DOMAIN parser.trace : parser.trace[t].ev = "regex_parse"

----------------------------------------------------------------------------
(* C9 *)

\* the malformed inputs, as far as the streams of the model have them: an
\* unbalanced parenthesis, stray operators, missing operands, a double
\* operator, and EOF before ]]
Malformed ==
  {Src(f) : f \in
     { <<W_LParen, W_a, W_DRightBracket>>,
       <<W_DAmp, W_a>>, <<W_DAmp, W_a, W_DRightBracket>>,
       <<W_RParen>>, <<W_RParen, W_DRightBracket>>,
       <<W_z, W_DRightBracket>>,
       <<W_a, W_DEqual, W_DRightBracket>>,
       <<W_a, W_DAmp, W_DRightBracket>>,
       <<W_DRightBracket>>,
       <<W_a, W_DAmp, W_DAmp, W_a, W_DRightBracket>>,
       <<>>, <<W_a>>, <<W_a, W_DEqual, W_a>> }}

\* C9: for every malformed input (unbalanced parenthesis, stray operator,
\* missing operand, double operator, EOF before ]]) Parse returns None and
\* at least one error record is on the parser's error stack; no exception
\* and no assertion signals such an input.
C9_MalformedReturnsNone ==
  Done("Parse") /\ stream \in Malformed =>
    /\ exc = ""
    /\ ret = NoneVal
    /\ parser.error_stack # <<>>

----------------------------------------------------------------------------
(* C10 *)

\* a read the parser made has returned None
FailedRead ==
  \E t \in ReadIdx : parser.trace[t].w = NoneVal

\* the records es stand on the stack in their order, side by side
OnStack(es) ==
  \E i \in 0..Len(parser.error_stack) :
    SubSeq(parser.error_stack, i + 1, i + Len(es)) = es

\* C10: whenever a read the parser makes returns None, made by _Next /
\* _NextOne or by _LookAhead, the word reader's pending error records are
\* appended in order to the parser's error stack and the parse returns
\* None; the missing word is not dereferenced.
C10_FailedReadReturnsNone ==
  pc = "done" /\ called # "_MakeParser" /\ FailedRead =>
    /\ exc = ""
    /\ ret = NoneVal
    /\ OnStack(parser.w_errors)

----------------------------------------------------------------------------
(* C11 *)

\* some child of the node, at any depth, is None
RECURSIVE HasNoneChild(_)
HasNoneChild(n) ==
  CASE n.cls = "LogicalNot" -> n.child = NoneVal \/ HasNoneChild(n.child)
    [] n.cls = "UnaryExprNode" -> n.child = NoneVal
    [] n.cls = "BinaryExprNode" ->
         \/ n.left = NoneVal \/ n.right = NoneVal
         \/ HasNoneChild(n.left) \/ HasNoneChild(n.right)
    [] OTHER -> FALSE

\* C11: the boolean parse fails as a unit.  If a sub-parse returned None or
\* an error was pushed on the error stack during Parse, Parse returns None;
\* every node Parse returns has no None child at any depth.
C11_FailsAsUnit ==
  Done("Parse") /\ exc = "" =>
    /\ parser.error_stack # <<>> => ret = NoneVal
    /\ ret # NoneVal => ~HasNoneChild(ret)

----------------------------------------------------------------------------
(* C12 *)

\* the operator Ids of a tree in order: left child, operator, right child;
\* the operator before the child for Unary and LogicalNot
RECURSIVE OperatorIds(_)
OperatorIds(n) ==
  CASE n.cls = "LogicalNot" -> <<"KW_Bang">> \o OperatorIds(n.child)
    [] n.cls = "UnaryExprNode" -> <<n.op_id>>
    [] n.cls = "BinaryExprNode" ->
         OperatorIds(n.left) \o <<n.op_id>> \o OperatorIds(n.right)
    [] OTHER -> <<>>

\* the Id of !, of a unary or binary test operator, of && or of ||
IsOperatorId(id) ==
  \/ id \in {"KW_Bang", "Op_DAmp", "Op_DPipe", "Redir_Less", "Redir_Great"}
  \/ LookupKind(id) \in {"BoolUnary", "BoolBinary"}

\* the Ids of the words of positions i..n that have the form of an operator
RECURSIVE OperatorFormed(_, _)
OperatorFormed(i, n) ==
  IF i > n THEN <<>>
  ELSE IF IsOperatorId(IdOf(At(i))) THEN <<IdOf(At(i))>> \o OperatorFormed(i + 1, n)
  ELSE OperatorFormed(i + 1, n)

\* the Ids of the words of positions i..n that stand as operators: a word
\* that follows a unary or binary test operator is its operand, whatever
\* its form (operand: the word before, newlines apart, was such an operator)
RECURSIVE OperatorStanding(_, _, _)
OperatorStanding(i, n, operand) ==
  IF i > n THEN <<>>
  ELSE IF IsNewline(At(i)) THEN OperatorStanding(i + 1, n, operand)
  ELSE IF operand THEN OperatorStanding(i + 1, n, FALSE)
  ELSE IF IsOperatorId(IdOf(At(i))) THEN
    <<IdOf(At(i))>> \o
      OperatorStanding(i + 1, n,
                       KindOf(At(i)) \in {"BoolUnary", "BoolBinary", "Redir"})
  ELSE OperatorStanding(i + 1, n, FALSE)

\* Parse has returned the node of a correct expression: no read failed and
\* no word is a redirection other than < and >
CorrectParse ==
  /\ Returned("Parse")
  /\ ~\E t \in DOMAIN parser.trace :
        parser.trace[t].ev = "ReadWord" /\ parser.trace[t].w = NoneVal
  /\ \A i \in DOMAIN stream :
       KindOf(stream[i]) = "Redir" => IdOf(stream[i]) \in {"Redir_Less", "Redir_Great"}

\* the position before the ]] Parse stopped on
LastOfExpr == WordPos(parser.cur_word) - 1

\* C12 as stated: for every correct expression the in-order listing of the
\* operator Ids of the tree Parse returns is the sequence of the operator
\* words of the input (!, unary and binary operators, &&, ||) in reading
\* order, parentheses and newlines left out.
C12_OperatorFormed ==
  CorrectParse => OperatorIds(ret) = OperatorFormed(1, LastOfExpr)

\* C12 with the operands left out: for every correct expression the
\* in-order listing of the operator Ids of the tree Parse returns is the
\* sequence, in reading order, of the operator words of the input that do
\* not stand as the operand of a unary or binary test.
C12_OperatorRoundTrip ==
  CorrectParse => OperatorIds(ret) = OperatorStanding(1, LastOfExpr, FALSE)

\* Parse has returned a tree of three operators
C12_Witness ==
  /\ CorrectParse
  /\ Len(OperatorIds(ret)) = 3
  /\ OperatorIds(ret) = OperatorFormed(1, LastOfExpr)

----------------------------------------------------------------------------
(* C13 .. C16: the registry *)

ID_SPEC == id_kind.ID_SPEC

\* the Id names the calls made so far registered
RegisteredNames == UNION {Range(c.names) : c \in Range(ID_SPEC.calls)}

\* the calls made so far gave distinct Kind names and distinct Id names
DistinctNames ==
  \A i, j \in DOMAIN ID_SPEC.calls :
    /\ i # j => ID_SPEC.calls[i].kind_name # ID_SPEC.calls[j].kind_name
    /\ \A a \in DOMAIN ID_SPEC.calls[i].names, b \in DOMAIN ID_SPEC.calls[j].names :
         (i # j \/ a # b) => ID_SPEC.calls[i].names[a] # ID_SPEC.calls[j].names[b]

\* C13: after any sequence of AddKind / AddKindPairs / AddBoolKind calls with
\* distinct names, every registered Id name has its own positive integer,
\* distinct from that of every other name, every such integer maps to one
\* Kind, and that Kind is the one of the call that registered the name (the
\* prefix of the name), although the Kind gets its integer only after its
\* Ids were added.
C13_EveryIdItsKind ==
  DistinctNames =>
    /\ DOMAIN ID_SPEC.id_enum = RegisteredNames
    /\ \A n \in RegisteredNames :
         /\ ID_SPEC.id_enum[n] >= 1
         /\ ID_SPEC.id_enum[n] \in DOMAIN ID_SPEC.kind_lookup
         /\ ID_SPEC.token_names[ID_SPEC.id_enum[n]] = n
    /\ \A n, m \in RegisteredNames :
         n # m => ID_SPEC.id_enum[n] # ID_SPEC.id_enum[m]
    /\ \A c \in Range(ID_SPEC.calls) :
         /\ c.kind_name \in DOMAIN ID_SPEC.kind_enum
         /\ \A n \in Range(c.names) :
              ID_SPEC.kind_lookup[ID_SPEC.id_enum[n]] = ID_SPEC.kind_enum[c.kind_name]
    /\ \A c, d \in Range(ID_SPEC.calls) :
         c.kind_name # d.kind_name =>
           ID_SPEC.kind_enum[c.kind_name] # ID_SPEC.kind_enum[d.kind_name]

\* the registry of the module is built: the nineteen Kinds of _AddKinds and
\* the two of _AddBoolKinds, with distinct names
C13_Witness ==
  /\ pc = "bool_kinds"
  /\ DistinctNames
  /\ Len(ID_SPEC.calls) = Len(KIND_TOKENS) + Len(BOOL_KIND_TOKENS)
  /\ Cardinality(RegisteredNames) > Len(KIND_TOKENS)

\* C14: registering an Id name or a Kind name that is already registered is
\* a fatal error: no registry is left in which a name was registered twice
\* without an error, none in which two integers carry the same name, none in
\* which the integer of an earlier Id was overwritten.
C14_DuplicateIsFatal ==
  /\ ~DistinctNames => exc # ""
  /\ \A i, j \in DOMAIN ID_SPEC.token_names :
       ID_SPEC.token_names[i] = ID_SPEC.token_names[j] => i = j
  /\ \A i \in DOMAIN ID_SPEC.token_names :
       ID_SPEC.id_enum[ID_SPEC.token_names[i]] = i

\* the module's registry is built
Built == pc \in {"bool_kinds", "imported"}

\* BOOL_OPS at the Id of this name
BoolOpOf(name) == ID_SPEC.bool_ops[ID_SPEC.id_enum[name]]

\* the names of the Ids of this Kind
NamesOfKind(kind_name) ==
  {n \in DOMAIN ID_SPEC.id_enum :
     ID_SPEC.kind_lookup[ID_SPEC.id_enum[n]] = ID_SPEC.kind_enum[kind_name]}

\* the operand type the table of C15 gives each operator
UnaryStr == {"BoolUnary_z", "BoolUnary_n"}
UnaryOther == {"BoolUnary_o", "BoolUnary_v", "BoolUnary_R"}
UnaryPath ==
  {"BoolUnary_a", "BoolUnary_b", "BoolUnary_c", "BoolUnary_d", "BoolUnary_e",
   "BoolUnary_f", "BoolUnary_g", "BoolUnary_h", "BoolUnary_L", "BoolUnary_p",
   "BoolUnary_r", "BoolUnary_s", "BoolUnary_S", "BoolUnary_t", "BoolUnary_u",
   "BoolUnary_w", "BoolUnary_x", "BoolUnary_O", "BoolUnary_G", "BoolUnary_N"}
BinaryStr ==
  {"BoolBinary_Equal", "BoolBinary_DEqual", "BoolBinary_NEqual",
   "BoolBinary_EqualTilde"}
BinaryPath == {"BoolBinary_ef", "BoolBinary_nt", "BoolBinary_ot"}
BinaryInt ==
  {"BoolBinary_eq", "BoolBinary_ne", "BoolBinary_gt", "BoolBinary_ge",
   "BoolBinary_lt", "BoolBinary_le"}
Logical == {"Op_DAmp", "Op_DPipe", "KW_Bang"}

\* C15: the operand-type table maps every Id of Kind BoolUnary or BoolBinary
\* to one of Path, Int, Str, Other: -z -n to Str, -o -v -R to Other, the
\* twenty file tests to Path; = == != =~ to Str, -ef -nt -ot to Path, the six
\* integer comparisons to Int; and Op_DAmp, Op_DPipe, KW_Bang to Undefined.
C15_OperandTypes ==
  Built =>
    /\ NamesOfKind("BoolUnary") = UnaryStr \cup UnaryOther \cup UnaryPath
    /\ NamesOfKind("BoolBinary") = BinaryStr \cup BinaryPath \cup BinaryInt
    /\ \A n \in NamesOfKind("BoolUnary") \cup NamesOfKind("BoolBinary") \cup Logical :
         ID_SPEC.id_enum[n] \in DOMAIN ID_SPEC.bool_ops
    /\ \A n \in UnaryStr \cup BinaryStr : BoolOpOf(n) = "Str"
    /\ \A n \in UnaryOther : BoolOpOf(n) = "Other"
    /\ \A n \in UnaryPath \cup BinaryPath : BoolOpOf(n) = "Path"
    /\ \A n \in BinaryInt : BoolOpOf(n) = "Int"
    /\ \A n \in Logical : BoolOpOf(n) = "Undefined"

\* the table is built, with the twenty file tests and the three logical
\* operators in it
C15_Witness ==
  /\ Built
  /\ Cardinality(UnaryPath) = Len(UNARY_FILE_CHARS)
  /\ UnaryPath \cup Logical \subseteq DOMAIN ID_SPEC.id_enum
  /\ BoolOpOf("BoolUnary_N") = "Path"
  /\ BoolOpOf("KW_Bang") = "Undefined"

\* the Ids of Kind Redir
RedirIds == {ID_SPEC.id_enum[n] : n \in NamesOfKind("Redir")}

\* C16: once the module is imported, the default-descriptor table and the
\* redirect-type table are both defined on exactly the Ids of Kind Redir, no
\* other Id is in either; the default descriptor is 0 or 1 and the type one
\* of Path, Desc, Str.
C16_RedirTables ==
  pc = "imported" =>
    /\ DOMAIN id_kind.REDIR_DEFAULT_FD = RedirIds
    /\ DOMAIN id_kind.REDIR_TYPE = RedirIds
    /\ \A i \in RedirIds :
         /\ id_kind.REDIR_DEFAULT_FD[i] \in {0, 1}
         /\ id_kind.REDIR_TYPE[i] \in {"Path", "Desc", "Str"}

\* the module is imported, the ten Ids of Kind Redir registered and the
\* tables filled
C16_Witness ==
  /\ pc = "imported"
  /\ Cardinality(RedirIds) = Len(KIND_TOKENS[8][2])
  /\ KIND_TOKENS[8][1] = "Redir"
  /\ id_kind.REDIR_DEFAULT_FD # EmptyMap
  /\ id_kind.REDIR_TYPE # EmptyMap

----------------------------------------------------------------------------
(* C17 .. C20: the methods of a word *)

\* the method was called on a compound word and returned
ReturnedOf(name) ==
  pc = "done" /\ called = name /\ exc = "" /\ self.cls = "CompoundWord"

\* a compound word of exactly one part, a literal part
SingleLiteral(w) ==
  w.cls = "CompoundWord" /\ Len(w.parts) = 1 /\ w.parts[1].cls = "LiteralPart"

\* C17: for a compound word of exactly one part, a literal part whose token
\* has Id i, CommandId returns i if i is of Kind KW or is Lit_LBrace or
\* Lit_RBrace and Word_Compound if not, and BoolId returns i if i is of Kind
\* BoolUnary or BoolBinary or is KW_Bang or Lit_DRightBracket and
\* Word_Compound if not; for a compound word of no part, of more than one
\* part, or whose one part is not a literal part, both return Word_Compound.
C17_CommandIdBoolId ==
  /\ ReturnedOf("CommandId") =>
       ret = IF /\ SingleLiteral(self)
                /\ \/ ID_TO_KIND[self.parts[1].token.id] = "KW"
                   \/ self.parts[1].token.id \in {"Lit_LBrace", "Lit_RBrace"}
             THEN self.parts[1].token.id
             ELSE "Word_Compound"
  /\ ReturnedOf("BoolId") =>
       ret = IF /\ SingleLiteral(self)
                /\ \/ ID_TO_KIND[self.parts[1].token.id] \in {"BoolUnary", "BoolBinary"}
                   \/ self.parts[1].token.id \in {"KW_Bang", "Lit_DRightBracket"}
             THEN self.parts[1].token.id
             ELSE "Word_Compound"

\* CommandId returned the keyword of a single literal part
C17_Witness ==
  /\ ReturnedOf("CommandId")
  /\ SingleLiteral(self)
  /\ self.parts[1].token.id = "KW_While"
  /\ ret = "KW_While"

\* a word that is a single literal token: a token word, or a compound word
\* of one literal part
SingleToken(w) == w.cls = "TokenWord" \/ SingleLiteral(w)
TokenIdOf(w) == IF w.cls = "TokenWord" THEN w.token.id ELSE w.parts[1].token.id

\* ArithId was called and returned
ArithIdReturned == pc = "done" /\ called = "ArithId" /\ exc = ""

\* C18 as stated: ArithId of a word that is a single literal token whose Id
\* is of Kind Arith returns that Id, and Word_Compound for every other word.
C18_ArithKindOnly ==
  ArithIdReturned =>
    ret = IF SingleToken(self) /\ ID_TO_KIND[TokenIdOf(self)] = "Arith"
          THEN TokenIdOf(self)
          ELSE "Word_Compound"

\* C18, amended: ArithId of a token word returns the Id of its token,
\* whatever the Kind of that Id; ArithId of a compound word returns
\* Word_Compound, whatever its parts.
C18_ArithIdByClass ==
  ArithIdReturned =>
    ret = IF self.cls = "TokenWord" THEN self.token.id ELSE "Word_Compound"

\* ArithId returned the Id of a token word whose Id is of Kind Arith
C18_Witness ==
  /\ ArithIdReturned
  /\ self.cls = "TokenWord"
  /\ ID_TO_KIND[self.token.id] = "Arith"
  /\ ret = self.token.id
  /\ ret # "Word_Compound"

\* the first part of the word is a literal part with Id Lit_VarLike
FirstIsVarLike(w) ==
  /\ w.parts # <<>>
  /\ w.parts[1].cls = "LiteralPart"
  /\ w.parts[1].token.id = "Lit_VarLike"

\* a call of LooksLikeAssignment leaves the parts of the word as they were
PartsUnchanged ==
  (pc = "word" /\ called' = "LooksLikeAssignment" /\ self.cls = "CompoundWord")
    => self'.parts = self.parts

\* what LooksLikeAssignment returned is what C19 says of the word
NameAndRhs ==
  ReturnedOf("LooksLikeAssignment") =>
    IF FirstIsVarLike(self)
    THEN /\ ret.cls = "tuple"
         /\ ret.name \o <<"=">> = self.parts[1].token.val
         /\ ~EndsWithEquals(ret.name)
         /\ ret.rhs.cls = "CompoundWord"
         /\ ret.rhs.parts = IF Len(self.parts) = 1
                            THEN <<SingleQuotedPart(<<>>)>>
                            ELSE SubSeq(self.parts, 2, Len(self.parts))
    ELSE ret = FalseVal

\* C19: for every compound word whose first part is a literal part with Id
\* Lit_VarLike, LooksLikeAssignment returns a pair (name, rhs), never False:
\* name is the text of the token without its last character, the =, and does
\* not end in =; rhs is a new compound word of the parts after the first, in
\* order, or of exactly one empty single-quoted part when there is none; the
\* parts of the word itself are as before the call.  For every other
\* compound word it returns False.
C19_LooksLikeAssignment == [](NameAndRhs) /\ [][PartsUnchanged]_vars

\* LooksLikeAssignment returned the name and the one empty single-quoted part
\* for a word of one part, x=
C19_Witness ==
  /\ ReturnedOf("LooksLikeAssignment")
  /\ self = CompoundWord(<<P_VarLike>>)
  /\ ret.cls = "tuple"
  /\ ret.name = <<"x">>
  /\ ret.rhs.parts = <<SingleQuotedPart(<<>>)>>

\* the classes of the parts whose EvalStatic returns ok = False
Substitutions == {"CommandSubPart", "VarSubPart", "ArithSubPart"}

\* some part of these classes is among parts, or among the parts of a
\* double-quoted part at any depth
RECURSIVE HasPartOf(_, _)
HasPartOf(parts, classes) ==
  \E i \in DOMAIN parts :
    \/ parts[i].cls \in classes
    \/ parts[i].cls = "DoubleQuotedPart" /\ HasPartOf(parts[i].parts, classes)

\* the text the claim gives a part, and the parts of a double-quoted part
RECURSIVE StaticText(_)
RECURSIVE StaticTexts(_)
StaticText(part) ==
  CASE part.cls = "LiteralPart" -> part.token.val
    [] part.cls = "SingleQuotedPart" -> JoinVals(part.tokens)
    [] part.cls = "EscapedLiteralPart" ->
         SubSeq(part.token.val, 2, Len(part.token.val))
    [] part.cls = "DoubleQuotedPart" -> StaticTexts(part.parts)
    [] OTHER -> <<>>
StaticTexts(parts) ==
  IF parts = <<>> THEN <<>>
  ELSE StaticText(Head(parts)) \o StaticTexts(Tail(parts))

\* at least one top-level part is single-quoted, double-quoted or an escaped
\* literal
AnyQuoted(parts) ==
  \E i \in DOMAIN parts :
    parts[i].cls \in {"SingleQuotedPart", "DoubleQuotedPart", "EscapedLiteralPart"}

\* EvalStatic was called on a compound word and came back, returning or
\* raising
EvalStaticDone ==
  pc = "done" /\ called = "EvalStatic" /\ self.cls = "CompoundWord"

\* what the triple is to be when the parts that make ok False are those of
\* the classes failing
TripleAsStated(failing) ==
  /\ exc = ""
  /\ ret[1] = ~HasPartOf(self.parts, failing)
  /\ ret[1] => ret[2] = StaticTexts(self.parts) /\ ret[3] = AnyQuoted(self.parts)

----------------------------------------------------------------------------
(* C21 .. C25: the buffer, the order of the words, newlines, ]], Redir *)

\* the events of the history: calls of _NextOne and _LookAhead (with
\* n = len(self.words) at the call), reads, words made current
Ev(k) == parser.trace[k]
IsEv(k, name) == k \in DOMAIN parser.trace /\ Ev(k).ev = name

\* the last read before event k returned w
LastReadGave(k, w) ==
  \E u \in ReadIdx :
    /\ u < k
    /\ \A v \in ReadIdx : v < k => v <= u
    /\ Ev(u).w = w

\* the _NextOne called at event k found two words: it reads nothing and
\* makes the second, the one _LookAhead read, current
ShiftsAt(k) ==
  /\ Ev(k).mode = DBRACKET
  /\ IsEv(k + 1, "cur")
  /\ LastReadGave(k, Ev(k + 1).w)
  /\ IsEv(k - 1, "ReadWord") /\ IsEv(k - 2, "_LookAhead")

\* the _NextOne called at event k found no or one word: it reads one word,
\* with the mode it was given, and makes it current unless the read failed
ReadsAt(k) ==
  /\ IsEv(k + 1, "ReadWord")
  /\ Ev(k + 1).mode = Ev(k).mode
  /\ IF Ev(k + 1).w = NoneVal THEN ~IsEv(k + 2, "cur")
     ELSE IsEv(k + 2, "cur") /\ Ev(k + 2).w = Ev(k + 1).w

\* C21: words holds between zero and two words; _NextOne with two words
\* buffered reads nothing and makes the second current, with zero or one
\* it reads exactly one word and leaves one buffered; _LookAhead is called
\* with exactly one word buffered only, and _NextOne with another mode than
\* DBRACKET only with fewer than two: neither assertion fires.
C21_LookaheadBuffer ==
  /\ Len(parser.words) \in 0..2
  /\ \A k \in DOMAIN parser.trace :
       /\ Ev(k).ev = "_NextOne" =>
            /\ Ev(k).n \in 0..2
            /\ IF Ev(k).n = 2 THEN ShiftsAt(k) ELSE ReadsAt(k)
       /\ Ev(k).ev = "_LookAhead" => Ev(k).n = 1
       /\ (Ev(k).ev = "cur" /\ k < Len(parser.trace)) =>
            /\ Ev(k + 1).ev \in {"_NextOne", "_LookAhead"} => Ev(k + 1).n = 1
       /\ (Ev(k).ev = "cur" /\ k = Len(parser.trace)) =>
            parser.words = <<parser.cur_word>>
       /\ Ev(k).ev = "ReadWord" => IsEv(k - 1, "_NextOne") \/ IsEv(k - 1, "_LookAhead")

\* Parse returned a node after calls of _NextOne that found no word, one
\* word and two words buffered, and a call of _LookAhead
C21_Witness ==
  /\ Returned("Parse")
  /\ \A n \in 0..2 :
       \E k \in DOMAIN parser.trace : Ev(k).ev = "_NextOne" /\ Ev(k).n = n
  /\ \E k \in DOMAIN parser.trace : Ev(k).ev = "_LookAhead"

\* the words of the events of this name among the first k of the history,
\* failed reads left out
WordsOfEvents(name, k) ==
  LET evs == SelectSeq(SubSeq(parser.trace, 1, k),
                       LAMBDA e : e.ev = name /\ e.w # NoneVal)
  IN [j \in DOMAIN evs |-> evs[j].w]

\* a is the beginning of b
IsPrefix(a, b) == Len(a) <= Len(b) /\ a = SubSeq(b, 1, Len(a))

\* the operand words of a tree, read left to right
RECURSIVE OperandSeq(_)
OperandSeq(n) ==
  CASE n.cls = "None" -> <<>>
    [] n.cls = "LogicalNot" -> OperandSeq(n.child)
    [] n.cls = "UnaryExprNode" -> <<n.child>>
    [] n.cls = "BinaryExprNode" /\ n.op_id \in {"Op_DAmp", "Op_DPipe"} ->
         OperandSeq(n.left) \o OperandSeq(n.right)
    [] n.cls = "BinaryExprNode" /\ n.op_id \notin {"Op_DAmp", "Op_DPipe"} ->
         <<n.left, n.right>>
    [] OTHER -> <<n>>

\* C22: the words that become the current word are the words the word
\* reader returned, in the same order, none dropped, duplicated or
\* reordered, the reader returning the words of the source one after the
\* other; at any moment at most one word beyond the current word has been
\* read; the operand words of the tree returned, read left to right, are in
\* source order.
C22_SourceOrder ==
  /\ \A k \in 0..Len(parser.trace) :
       /\ IsPrefix(WordsOfEvents("cur", k), WordsOfEvents("ReadWord", k))
       /\ Len(WordsOfEvents("ReadWord", k)) - Len(WordsOfEvents("cur", k)) <= 1
  /\ \A t \in ReadIdx :
       /\ Ev(t).idx = Cardinality({u \in ReadIdx : u <= t})
       /\ Ev(t).w = At(Ev(t).idx)
  /\ (pc = "done" /\ exc = "") =>
       /\ WordsOfEvents("cur", Len(parser.trace))
            = WordsOfEvents("ReadWord", Len(parser.trace))
       /\ \A i, j \in DOMAIN OperandSeq(ret) :
            i < j => WordPos(OperandSeq(ret)[i]) < WordPos(OperandSeq(ret)[j])

\* Parse returned a tree of three operands or more, one word having been
\* read ahead of the current word on the way
C22_Witness ==
  /\ Returned("Parse")
  /\ Len(OperandSeq(ret)) >= 3
  /\ \E k \in DOMAIN parser.trace :
       Len(WordsOfEvents("ReadWord", k)) = Len(WordsOfEvents("cur", k)) + 1
  /\ Len(WordsOfEvents("cur", Len(parser.trace))) = Len(stream)

\* the words of f that are not newlines
NoNewlines(f) == SelectSeq(f, LAMBDA w : ~IsNewline(w))

\* the stream without its newlines, as the word reader returns it
Stripped == Src(NoNewlines(stream))

\* a tree with the source positions of its words taken off
RECURSIVE Unstamped(_)
Unstamped(n) ==
  CASE n.cls = "None" -> n
    [] n.cls = "LogicalNot" -> [n EXCEPT !.child = Unstamped(n.child)]
    [] n.cls = "UnaryExprNode" -> [n EXCEPT !.child = Stamp(n.child, 0)]
    [] n.cls = "BinaryExprNode" /\ n.op_id \in {"Op_DAmp", "Op_DPipe"} ->
         [n EXCEPT !.left = Unstamped(n.left), !.right = Unstamped(n.right)]
    [] n.cls = "BinaryExprNode" /\ n.op_id \notin {"Op_DAmp", "Op_DPipe"} ->
         [n EXCEPT !.left = Stamp(n.left, 0), !.right = Stamp(n.right, 0)]
    [] OTHER -> Stamp(n, 0)

\* the words newlines may stand next to
BeforeOrAfter == {"Op_DAmp", "Op_DPipe", "KW_Bang", "Op_LParen", "Op_RParen"}

\* the newline at position i stands in a run of newlines that comes
\* immediately before &&, ||, !, (, ) or ]], or immediately after one of the
\* first five
NewlineInPlace(i) ==
  \/ IdOf(At(SkipNewlines(i))) \in BeforeOrAfter \cup {"Lit_DRightBracket"}
  \/ \E j \in 1..(i - 1) :
       /\ IdOf(At(j)) \in BeforeOrAfter
       /\ \A m \in (j + 1)..i : IsNewline(At(m))

\* the stream is a correct expression and its ]] with newlines put in, in
\* such places only
NewlinesPutIn ==
  /\ \E i \in DOMAIN stream : IsNewline(At(i))
  /\ \A i \in DOMAIN stream : IsNewline(At(i)) => NewlineInPlace(i)
  /\ CorrectExpr(Parse(NewParser(Stripped)), Len(Stripped))

\* C23: any number of Op_Newline words put immediately before or after &&,
\* ||, !, (, ) or before ]] in a correct expression leave the tree Parse
\* returns the same, and no Op_Newline word is the operator or an operand
\* of any node.
C23_NewlinesSkipped ==
  /\ (Done("Parse") /\ NewlinesPutIn) =>
       /\ exc = ""
       /\ ret # NoneVal
       /\ Unstamped(ret) = Unstamped(Parse(NewParser(Stripped)).ret)
  /\ (pc = "done" /\ exc = "") =>
       /\ \A i \in DOMAIN OperandSeq(ret) : ~IsNewline(OperandSeq(ret)[i])
       /\ \A i \in DOMAIN OperatorIds(ret) : OperatorIds(ret)[i] # "Op_Newline"

\* Parse returned the tree of zoo && ( foo == bar ) with two newlines among
\* its words
C23_Witness ==
  /\ Returned("Parse")
  /\ NewlinesPutIn
  /\ Len(stream) = Len(Stripped) + 2
  /\ Len(OperandSeq(ret)) = 3
  /\ \E i \in DOMAIN stream : IsNewline(At(i)) /\ IdOf(At(i + 1)) = "Op_RParen"

\* read t returned the terminator, a word whose BoolId is Lit_DRightBracket
ReturnedTerminator(t) == IdOf(Ev(t).w) = "Lit_DRightBracket"

\* C24: for every word stream, once the word reader has returned ]] the
\* parser makes no other read: ]] is no operand of a unary or binary
\* operator in any tree returned, and the word after ]] is left unread.
C24_NoReadPastTerminator ==
  /\ \A t, u \in ReadIdx : ReturnedTerminator(t) => u <= t
  /\ (pc = "done" /\ exc = "") =>
       \A i \in DOMAIN OperandSeq(ret) :
         IdOf(OperandSeq(ret)[i]) # "Lit_DRightBracket"

\* the registry of the module, the dicts of _AddBoolKinds iterated as
\* written
BuiltSpec == _AddBoolKinds(_AddKinds(NewIdSpec), <<1, 2, 3>>, <<1, 2, 3>>)

\* the names of the Ids that have an entry in BOOL_OPS
BoolOpNames == {BuiltSpec.token_names[i] : i \in DOMAIN BuiltSpec.bool_ops}

\* the operator Ids stored in the Unary and Binary nodes of a tree
RECURSIVE NodeOps(_)
NodeOps(n) ==
  CASE n.cls = "LogicalNot" -> NodeOps(n.child)
    [] n.cls = "UnaryExprNode" -> {n.op_id}
    [] n.cls = "BinaryExprNode" /\ n.op_id \in {"Op_DAmp", "Op_DPipe"} ->
         {n.op_id} \cup NodeOps(n.left) \cup NodeOps(n.right)
    [] n.cls = "BinaryExprNode" /\ n.op_id \notin {"Op_DAmp", "Op_DPipe"} ->
         {n.op_id}
    [] OTHER -> {}

\* C25: every operator Id stored in a Unary or Binary node has an entry in
\* BOOL_OPS; of the Ids of Kind Redir only Redir_Less and Redir_Great are
\* taken for a binary operator.
C25_OperatorsInBoolOps ==
  (pc = "done" /\ exc = "") =>
    \A op \in NodeOps(ret) :
      /\ op \in BoolOpNames
      /\ ID_TO_KIND[op] = "Redir" => op \in {"Redir_Less", "Redir_Great"}

============================================================================
